---------------------------- MODULE Spec2Model ----------------------------
(***************************************************************************)
(* The interactive force-directed graph engine of BrainstormCanvas:        *)
(* the node/link store, the expansion orchestrator (expandNode), root      *)
(* initialisation (startRoot), the pointer handlers and graph publication. *)
(*                                                                         *)
(* Conventions                                                             *)
(*  - JavaScript objects are heap cells: heap maps the id of a node object *)
(*    to its fields, nodesRef holds ids in array order.  A reference kept  *)
(*    by a closure or a ref (the currentNode of a pending expandNode, the  *)
(*    dragNode) stays usable after the store array has been replaced.      *)
(*    Cells no reference reaches are dropped, as a garbage collector does. *)
(*  - ids: `root-${Date.now()}` is <<r>>, r the ordinal of the root        *)
(*    submission (the clock is taken to advance between two submissions);  *)
(*    `${parent.id}-${type}-${idx}-${Date.now()}` is parent.id \o <<k>>,   *)
(*    k the position of the child among the children of that expansion.    *)
(*  - strings are sequences of one-character strings.                      *)
(*  - world coordinates, velocities and radii are fixed point, in tenths   *)
(*    of a pixel; screen coordinates are whole pixels relative to the      *)
(*    canvas centre; the zoom scale k is in thousandths.                   *)
(*  - undefined optional booleans (isMarked, isLoading, isDragging) are    *)
(*    FALSE; an absent parentId is NoNode.                                 *)
(*  - last, moves, ticks and zooms observe the run; no handler reads them. *)
(***************************************************************************)
EXTENDS Integers, Sequences, FiniteSets, Bags, TLC

(* ------------------------------ bounds -------------------------------- *)
\* number of non-blank root submissions in a behaviour
MaxRoots == 2
\* the provider returns children only while the store stays within this size
MaxNodes == 3
\* number of pointer-move events handled during gestures in a behaviour
MaxMoves == 1
\* number of animation frames that run the physics update in a behaviour
MaxTicks == 1
\* presses of the zoom-in and zoom-out buttons in a behaviour
MaxZooms == 1
\* number of animation frames that run the physics update where the frames
\* themselves are studied
MaxFrames == 2
\* size of the store where two expansions run at the same time
MaxPairNodes == 5

(* ----------------------------- constants ------------------------------ *)
NoNode == <<>>
NoToast == "none"
\* no withFallback run yet
NoCalls == [threw |-> FALSE, error |-> [status |-> 0, message |-> << >>],
            invoked |-> << >>, rethrown |-> FALSE]

\* BASE_RADIUS, in pixels
BASE_RADIUS == [root |-> 45, level1 |-> 35, normal |-> 28, image |-> 40]
\* PHYSICS.LINK_DISTANCE, in pixels
LINK_DISTANCE == 260
\* COLORS
COLORS == [root |-> "#4f46e5", up |-> "#60a5fa", side |-> "#a78bfa",
           down |-> "#94a3b8", image |-> "#f43f5e"]

\* one pixel, in world units
Px(n) == n * 10
\* scale 1, in thousandths
ScaleOne == 1000

(* ------------------------------ inputs -------------------------------- *)
\* texts typed into the root input: blank and not blank
RootTexts == { <<" ">>, <<"a", "b">> }
\* strings the provider returns
ProviderTexts == { <<"x", "y">> }
\* pointer positions, pixels from the canvas centre
Points == { [x |-> 0, y |-> 0], [x |-> 3, y |-> 4], [x |-> 208, y |-> 0] }
\* pointer positions where the frames are studied: on the root, on its first
\* child, on the background
FramePoints == { [x |-> 0, y |-> 0], [x |-> 208, y |-> 0], [x |-> 0, y |-> 100] }
\* labels with spaces: a root label that fits one line, one that wraps, a child
\* label with a word wider than the line, one wrapped after its second word
WrapRootTexts == { <<"W", " ", "W", "W">>, <<"W", "W", " ", "W", "W", "W">> }
WrapProviderTexts == { <<"a", " ", "W", "W", "W", "W", "W">>,
                       <<"a", " ", "b", " ", "W", "W", "W", "W", "W">> }
\* pointer positions on the two children of a root that got two
PairPoints == { [x |-> 208, y |-> 0], [x |-> -208, y |-> 0] }
\* root labels of either sort, and one with two spaces in a row
LabelRootTexts == { <<"W", "W", " ", "W", "W", "W">>,
                    <<"W", " ", " ", "W", "W", "W", "W">>,
                    <<"W", "W", "W", "W", "W", "W">> }
\* labels without spaces: a root label of six full-width glyphs, one of six
\* narrow glyphs; child labels of five and of seven full-width glyphs
TokenRootTexts == { <<"W", "W", "W", "W", "W", "W">>, <<"a", "b", "c", "d", "e", "f">> }
TokenProviderTexts == { <<"W", "W", "W", "W", "W">>,
                        <<"W", "W", "W", "W", "W", "W", "W">> }
\* a published node (MindMapNode), as the owner of the canvas holds it
MindMapNode(id, text, type, level, parentId, assoc, marked) ==
  [ id |-> id, text |-> text, type |-> type, level |-> level, children |-> <<>>,
    parentId |-> parentId, isLoading |-> FALSE, isMarked |-> marked,
    associationType |-> assoc ]
\* node lists the owner passes to the canvas when it mounts: a root with an
\* image child, an image node whose parent is absent, a long-text root with a
\* marked text child
PublishedGraphs ==
  { << MindMapNode(<<1>>, <<"a", "b">>, "text", 0, << >>, "root", FALSE),
       MindMapNode(<<1, 1>>, <<"i">>, "image", 1, <<1>>, "down", FALSE) >>,
    << MindMapNode(<<1, 1>>, <<"i">>, "image", 1, <<1>>, "side", FALSE) >>,
    << MindMapNode(<<1>>, <<"a", "b", "c", "d", "e", "f", "g">>, "text", 0, << >>,
                   "root", FALSE),
       MindMapNode(<<1, 1>>, <<"x", "y">>, "text", 1, <<1>>, "up", TRUE) >> }
\* values of (Math.random() - 0.5) * 100 taken for restored positions
RestorePositions == { [x |-> 0, y |-> 0], [x |-> 49, y |-> 0] }
\* deltaY of wheel events: one coarse notch and an extreme swipe, both ways
WheelDeltas == { -100000, -1500, 1500, 100000 }
\* the wheel turned far enough to reach either end of the zoom range
WheelExtremes == { -100000, 100000 }
\* the ways a root is submitted
Vias == {"button", "enter", "upload"}

(* ----------------------------- variables ------------------------------ *)
VARIABLES
  heap,               \* node objects: id -> PhysicsNode fields
  nodesRef,           \* nodesRef.current: ids, in array order
  linksRef,           \* linksRef.current: sequence of PhysicsLink
  transformRef,       \* transformRef.current: [x, y, k]
  simulationActiveRef,\* simulationActiveRef.current
  isDragging,         \* isDragging.current
  dragNode,           \* dragNode.current: id of the referenced object or NoNode
  lastMousePos,       \* lastMousePos.current
  startDragPos,       \* startDragPos.current
  isInitializing,     \* React state isInitializing
  infoNode,           \* React state infoNode: id or NoNode
  toast,              \* React state toast: NoToast, "warning" or "error"
  nodes,              \* the nodes prop: the list last given to setNodes
  inflight,           \* bag of pending expandBrainstormNode calls
  rootSeq,            \* number of roots created so far (the clock of root ids)
  last,               \* the last step: [op, node, pubs], pubs the number of
                      \* setNodes calls it made
  moves,              \* pointer moves handled during gestures so far
  ticks,              \* physics updates run so far
  zooms,              \* presses of the zoom-in and zoom-out buttons so far
  calls               \* the last withFallback run: whether the primary threw
                      \* and what, the functions invoked in order, and
                      \* whether the primary's error was rethrown

vars == << heap, nodesRef, linksRef, transformRef, simulationActiveRef,
           isDragging, dragNode, lastMousePos, startDragPos, isInitializing,
           infoNode, toast, nodes, inflight, rootSeq, last, moves, ticks, zooms,
           calls >>

(* ------------------------------ helpers ------------------------------- *)
Range(s) == { s[i] : i \in DOMAIN s }

Min(a, b) == IF a < b THEN a ELSE b
Max(a, b) == IF a > b THEN a ELSE b

RECURSIVE SqrtSearch(_, _, _)
SqrtSearch(n, lo, hi) ==
  IF lo >= hi THEN lo
  ELSE LET mid == (lo + hi + 1) \div 2
       IN  IF mid * mid <= n THEN SqrtSearch(n, mid, hi)
                             ELSE SqrtSearch(n, lo, mid - 1)
\* Math.sqrt, rounded down
ISqrt(n) == SqrtSearch(n, 0, 46340)

\* String.prototype.trim: drop the spaces at both ends
RECURSIVE TrimStart(_)
TrimStart(s) == IF s = <<>> \/ Head(s) # " " THEN s ELSE TrimStart(Tail(s))
RECURSIVE TrimEnd(_)
TrimEnd(s) == IF s = <<>> \/ s[Len(s)] # " " THEN s
              ELSE TrimEnd(SubSeq(s, 1, Len(s) - 1))
Trim(s) == TrimEnd(TrimStart(s))

\* nodesRef.current.find(n => n.id === id) finds a node
InStore(store, id) == id \in Range(store)

\* linksRef.current.some(l => l.source === id)
hasChildren(links, id) == \E i \in DOMAIN links : links[i].source = id

\* the node objects some reference still reaches
Roots(store, drag, info, fl) ==
  Range(store) \cup { r.node : r \in BagToSet(fl) }
               \cup ({drag, info} \ {NoNode})
Collect(h, keep) == [ i \in (DOMAIN h \cap keep) |-> h[i] ]

(* ------------------------- createPhysicsNode -------------------------- *)
createPhysicsNode(node, x, y) ==
  LET r0 == IF node.level = 0 THEN Px(BASE_RADIUS.root)
            ELSE IF node.type = "image" THEN Px(BASE_RADIUS.image)
            ELSE Px(BASE_RADIUS.normal)
      color == IF node.level = 0 THEN COLORS.root
               ELSE IF node.type = "image" THEN COLORS.image
               ELSE IF node.associationType = "up" THEN COLORS.up
               ELSE IF node.associationType = "side" THEN COLORS.side
               ELSE COLORS.down
      textLen == Len(node.text)
      \* Math.sqrt(textLen) * 6, in tenths of a pixel
      growth == ISqrt(textLen * 3600)
      r == IF textLen > 6 THEN Min(r0 + growth, Px(90)) ELSE r0
  IN  [ id |-> node.id, text |-> node.text, type |-> node.type,
        level |-> node.level, children |-> node.children,
        parentId |-> node.parentId, isLoading |-> node.isLoading,
        isMarked |-> node.isMarked, associationType |-> node.associationType,
        x |-> x, y |-> y, vx |-> 0, vy |-> 0, radius |-> r, color |-> color,
        isDragging |-> FALSE ]

(* ---------------------- expandNode, up to the await ------------------- *)
\* One node of the restore effect: the radius is recomputed from the level,
\* the type and the text length (r += Math.min(text.length * 1.5, 40)), the
\* position is random, the colour follows the level and the association type,
\* every other field is copied (...n).
restoreNode(n, pos) ==
  LET r0 == IF n.level = 0 THEN Px(BASE_RADIUS.root)
            ELSE IF n.type = "image" THEN Px(BASE_RADIUS.image)
            ELSE Px(BASE_RADIUS.normal)
      r == IF Len(n.text) > 6 THEN r0 + Min(Len(n.text) * 15, Px(40)) ELSE r0
      color == IF n.level = 0 THEN COLORS.root
               ELSE IF n.associationType = "up" THEN COLORS.up
               ELSE IF n.associationType = "side" THEN COLORS.side
               ELSE COLORS.down
  IN  [ id |-> n.id, text |-> n.text, type |-> n.type, level |-> n.level,
        children |-> n.children, parentId |-> n.parentId,
        isLoading |-> n.isLoading, isMarked |-> n.isMarked,
        associationType |-> n.associationType,
        x |-> Px(pos.x), y |-> Px(pos.y), vx |-> 0, vy |-> 0, radius |-> r,
        color |-> color, isDragging |-> FALSE ]

\* the links the restore effect rebuilds: one per node whose parentId names a
\* restored node, in node order
RECURSIVE restoreLinks(_, _)
restoreLinks(g, i) ==
  IF i > Len(g) THEN << >>
  ELSE (IF g[i].parentId # NoNode /\ \E j \in DOMAIN g : g[j].id = g[i].parentId
        THEN << [source |-> g[i].parentId, target |-> g[i].id] >>
        ELSE << >>) \o restoreLinks(g, i + 1)

\* expandNode entered without the isLoading test of its guard
expandNodeIssue_NoLoadingGuard(st, store, links, id, byRoot) ==
  IF ~InStore(store, id) THEN st
  ELSE IF hasChildren(links, id) THEN st
  ELSE [ heap |-> [st.heap EXCEPT ![id].isLoading = TRUE],
         sim |-> TRUE,
         inflight |-> st.inflight (+) SetToBag({[node |-> id, byRoot |-> byRoot]}) ]

\* The part of expandNode that runs before the provider call is awaited.
\* st is [heap, sim, inflight]; byRoot tells that startRoot awaits the call.
expandNodeIssue(st, store, links, id, byRoot) ==
  IF ~InStore(store, id) THEN st
  ELSE IF st.heap[id].isLoading \/ hasChildren(links, id) THEN st
  ELSE [ heap |-> [st.heap EXCEPT ![id].isLoading = TRUE],
         sim |-> TRUE,
         inflight |-> st.inflight (+) SetToBag({[node |-> id, byRoot |-> byRoot]}) ]

\* the number of pending provider calls
Pending(fl) == BagCardinality(fl)

\* publishing the first node only: setNodes(nodesRef.current.slice(0, 1))
syncNodesToGlobal_FirstOnly(store) == [ i \in 1..(IF Len(store) > 0 THEN 1 ELSE 0) |-> store[i] ]

\* syncNodesToGlobal: setNodes([...nodesRef.current])
syncNodesToGlobal(store) == [ i \in 1..Len(store) |-> store[i] ]

(* ------------------------------ startRoot ----------------------------- *)
startRoot(text, via) ==
  /\ (via = "button") => ~isInitializing
  /\ IF Trim(text) = <<>>
     THEN /\ last' = [op |-> "root-blank", node |-> NoNode, pubs |-> 0]
          /\ UNCHANGED << heap, nodesRef, linksRef, transformRef,
                          simulationActiveRef, isInitializing, inflight, rootSeq >>
     ELSE LET id == << rootSeq + 1 >>
              rootNodeData == [ id |-> id, text |-> text, type |-> "text",
                                level |-> 0, children |-> <<>>,
                                parentId |-> NoNode, isLoading |-> FALSE,
                                isMarked |-> FALSE, associationType |-> "root" ]
              rootPNode == createPhysicsNode(rootNodeData, 0, 0)
              store == << id >>
              st == expandNodeIssue([ heap |-> (id :> rootPNode) @@ heap,
                                      sim |-> TRUE, inflight |-> inflight ],
                                    store, <<>>, id, TRUE)
          IN  /\ isInitializing' = TRUE
              /\ nodesRef' = store
              /\ linksRef' = <<>>
              /\ transformRef' = [x |-> 0, y |-> 0, k |-> ScaleOne]
              /\ simulationActiveRef' = st.sim
              /\ inflight' = st.inflight
              /\ heap' = Collect(st.heap,
                                 Roots(store, dragNode, infoNode, st.inflight))
              /\ rootSeq' = rootSeq + 1
              /\ last' = [op |-> "root", node |-> id, pubs |-> 0]
  /\ UNCHANGED << isDragging, dragNode, lastMousePos, startDragPos, infoNode,
                  toast, nodes, moves, ticks, zooms, calls >>

(* ---------------------- expandNode, after the await ------------------- *)
\* a/b rounded towards zero, b > 0
Quot(a, b) == IF a >= 0 THEN a \div b ELSE -((-a) \div b)

\* cos and sin of the multiples of 1/24 turn, in thousandths
COS24 == << 1000, 966, 866, 707, 500, 259, 0, -259, -500, -707, -866, -966,
            -1000, -966, -866, -707, -500, -259, 0, 259, 500, 707, 866, 966 >>
SIN24 == << 0, 259, 500, 707, 866, 966, 1000, 966, 866, 707, 500, 259,
            0, -259, -500, -707, -866, -966, -1000, -966, -866, -707, -500, -259 >>

\* (i / n) * 2 * PI + Math.random() * 0.5, as a multiple of 1/24 turn: the
\* random term, below 1/12 turn, is the one that rounds the angle up
spawnAngle(i, n) == (((24 * i) + n - 1) \div n) % 24

\* PHYSICS.LINK_DISTANCE * 0.8, in world units
spawnDist == (Px(LINK_DISTANCE) * 8) \div 10

\* processGroup placing the children at the level of their parent
processGroup_SameLevel(cur, texts, type, offset) ==
  [ i \in 1..Len(texts) |->
      [ id |-> cur.id \o << offset + i >>, text |-> texts[i], type |-> "text",
        level |-> cur.level, children |-> <<>>, parentId |-> cur.id,
        isLoading |-> FALSE, isMarked |-> FALSE, associationType |-> type ] ]

\* processGroup: the MindMapNode data of one group; offset is the number of
\* entries pushed to newNodesData before it
processGroup(cur, texts, type, offset) ==
  [ i \in 1..Len(texts) |->
      [ id |-> cur.id \o << offset + i >>, text |-> texts[i], type |-> "text",
        level |-> cur.level + 1, children |-> <<>>, parentId |-> cur.id,
        isLoading |-> FALSE, isMarked |-> FALSE, associationType |-> type ] ]

\* newNodesData after the three processGroup calls
newNodesData(cur, res) ==
  processGroup(cur, res.up, "up", 0)
    \o processGroup(cur, res.side, "side", Len(res.up))
    \o processGroup(cur, res.down, "down", Len(res.up) + Len(res.side))

\* newPNodes: the children on a circle around the parent
newPNodes(cur, data) ==
  LET n == Len(data)
  IN  [ i \in 1..n |->
          createPhysicsNode(data[i],
            cur.x + Quot(COS24[spawnAngle(i - 1, n) + 1] * spawnDist, 1000),
            cur.y + Quot(SIN24[spawnAngle(i - 1, n) + 1] * spawnDist, 1000)) ]

\* newLinks: one link from the parent to every new node
newLinks(cur, pnodes) ==
  [ i \in 1..Len(pnodes) |->
      [source |-> cur.id, target |-> pnodes[i].id, strength |-> 1] ]

\* expandNode with a catch block that sets no toast
toastAfter_SilentCatch(old, res) ==
  IF res.kind # "ok" THEN old
  ELSE IF Len(res.up) + Len(res.side) + Len(res.down) = 0 THEN "warning"
  ELSE old

\* expandNode without the toast for an empty result
toastAfter_SilentEmpty(old, res) ==
  IF res.kind # "ok" THEN "error" ELSE old

\* the toast after the try and catch blocks: "warning" for an empty result,
\* "error" from the catch block
toastAfter(old, res) ==
  IF res.kind # "ok" THEN "error"
  ELSE IF Len(newNodesData([id |-> <<>>, level |-> 0], res)) = 0 THEN "warning"
  ELSE old

\* expandNode without the isLoading reset of its finally block
finallyLoading_Skipped(h, id) == h

\* the finally block resetting the node's mark together with its loading flag
finallyLoading_ClearsMark(h, id) ==
  [h EXCEPT ![id].isLoading = FALSE, ![id].isMarked = FALSE]

\* the finally block of expandNode: currentNode.isLoading = false
finallyLoading(h, id) == [h EXCEPT ![id].isLoading = FALSE]

\* the try block assigning the new nodes as the store: nodesRef.current =
\* [...newPNodes]
tryBlock_NewNodesOnly(st, cur, res) ==
  LET data == newNodesData(cur, res)
      pn == newPNodes(cur, data)
      ids == [ i \in 1..Len(pn) |-> pn[i].id ]
      heap1 == [ i \in DOMAIN st.heap \cup Range(ids) |->
                   IF i \in Range(ids)
                   THEN pn[CHOOSE j \in 1..Len(pn) : ids[j] = i]
                   ELSE st.heap[i] ]
  IN  IF res.kind # "ok" THEN st
      ELSE [ heap |-> [heap1 EXCEPT ![cur.id].children = ids],
             nodesRef |-> ids,
             linksRef |-> st.linksRef \o newLinks(cur, pn) ]

\* the try block assigning the new links as the link list: linksRef.current =
\* [...newLinks]
tryBlock_NewLinksOnly(st, cur, res) ==
  LET data == newNodesData(cur, res)
      pn == newPNodes(cur, data)
      ids == [ i \in 1..Len(pn) |-> pn[i].id ]
      heap1 == [ i \in DOMAIN st.heap \cup Range(ids) |->
                   IF i \in Range(ids)
                   THEN pn[CHOOSE j \in 1..Len(pn) : ids[j] = i]
                   ELSE st.heap[i] ]
  IN  IF res.kind # "ok" THEN st
      ELSE [ heap |-> [heap1 EXCEPT ![cur.id].children = ids],
             nodesRef |-> st.nodesRef \o ids,
             linksRef |-> newLinks(cur, pn) ]

\* The try block of expandNode after the await: st is [heap, nodesRef,
\* linksRef]; cur is the node object captured before the await.
tryBlock(st, cur, res) ==
  LET data == newNodesData(cur, res)
      pn == newPNodes(cur, data)
      ids == [ i \in 1..Len(pn) |-> pn[i].id ]
      heap1 == [ i \in DOMAIN st.heap \cup Range(ids) |->
                   IF i \in Range(ids)
                   THEN pn[CHOOSE j \in 1..Len(pn) : ids[j] = i]
                   ELSE st.heap[i] ]
  IN  IF res.kind # "ok" THEN st     \* the await or the processing threw
      ELSE [ heap |-> [heap1 EXCEPT ![cur.id].children = ids],
             nodesRef |-> st.nodesRef \o ids,
             linksRef |-> st.linksRef \o newLinks(cur, pn) ]

\* the provider's answers: three groups of strings, or a failure
Group(n) == [ i \in 1..n |-> CHOOSE t \in ProviderTexts : TRUE ]
Shapes == { <<0, 0, 0>>, <<1, 0, 0>>, <<0, 1, 1>> }
Results == { [kind |-> "ok", up |-> Group(sh[1]), side |-> Group(sh[2]),
              down |-> Group(sh[3])] : sh \in Shapes }
           \cup { [kind |-> "throw", up |-> <<>>, side |-> <<>>, down |-> <<>>] }
Total(res) == Len(res.up) + Len(res.side) + Len(res.down)

\* The rest of expandNode, from the resumption of the await to the end of
\* finally; when startRoot awaits the call, its finally block follows in the
\* same run of microtasks.
Resume(req, res) ==
  /\ BagIn(req, inflight)
  /\ LET cur == heap[req.node]
         st == tryBlock([heap |-> heap, nodesRef |-> nodesRef,
                         linksRef |-> linksRef], cur, res)
         heap1 == finallyLoading(st.heap, cur.id)
         fl1 == inflight (-) SetToBag({req})
     IN  /\ nodesRef' = st.nodesRef
         /\ linksRef' = st.linksRef
         /\ toast' = toastAfter(toast, res)
         /\ nodes' = syncNodesToGlobal(st.nodesRef)
         /\ last' = [op |-> IF res.kind # "ok" THEN "done-throw"
                            ELSE IF Total(res) = 0 THEN "done-empty"
                            ELSE "done-ok",
                     node |-> req.node,
                     pubs |-> IF req.byRoot THEN 2 ELSE 1]
         /\ isInitializing' = IF req.byRoot THEN FALSE ELSE isInitializing
         /\ inflight' = fl1
         /\ heap' = Collect(heap1, Roots(st.nodesRef, dragNode, infoNode, fl1))
  /\ UNCHANGED << transformRef, simulationActiveRef, isDragging, dragNode,
                  lastMousePos, startDragPos, infoNode, rootSeq, moves, ticks, zooms >>

\* a completion that keeps the store within MaxNodes
Complete(req, res) ==
  /\ Len(nodesRef) + Total(res) <= MaxNodes
  /\ Resume(req, res)
  /\ UNCHANGED calls

(* ------------------------ the expansion provider --------------------- *)
\* a group of a parsed response: an array of strings, or absent
Items(items) == [is |-> "array", items |-> items]
Absent == [is |-> "absent", items |-> << >>]

\* what JSON.parse returns for a response text: null, a number, or an object
\* with its up, side and down members
JNull == [tag |-> "null", up |-> Absent, side |-> Absent, down |-> Absent]
JNumber == [tag |-> "number", up |-> Absent, side |-> Absent, down |-> Absent]
JObject(up, side, down) == [tag |-> "object", up |-> up, side |-> side, down |-> down]

EmptyGroups == JObject(Items(<< >>), Items(<< >>), Items(<< >>))

\* the values a response text can hold
JsonValues ==
  { JNull, JNumber, EmptyGroups,
    JObject(Items(Group(1)), Items(<< >>), Items(<< >>)),
    JObject(Items(Group(1)), Absent, Absent),
    JObject(Absent, Items(<< >>), Items(<< >>)) }

\* an error object: its status (0 when it has none) and its message
ApiError(status, message) == [status |-> status, message |-> message]
NoError == ApiError(0, << >>)
\* the error JSON.parse throws: no status
SyntaxError == ApiError(0, <<"b", "a", "d", " ", "J", "S", "O", "N">>)

\* errors a generateContent call rejects with: an error without status whose
\* message names RPC in capitals, a 400 whose message names the region, and a
\* 404 whose message names the region
Errors ==
  { ApiError(0, <<"R", "P", "C">>),
    ApiError(400, <<"R", "e", "g", "i", "o", "n">>),
    ApiError(404, <<"r", "e", "g", "i", "o", "n">>) }

\* String.prototype.toLowerCase, on the capitals the messages use
toLowerCaseChar(c) ==
  CASE c = "R" -> "r" [] c = "P" -> "p" [] c = "C" -> "c" [] c = "J" -> "j"
    [] c = "S" -> "s" [] c = "O" -> "o" [] c = "N" -> "n" [] OTHER -> c
toLowerCase(s) == [ i \in 1..Len(s) |-> toLowerCaseChar(s[i]) ]

\* String.prototype.includes
includes(s, sub) ==
  \E i \in 1..(Len(s) - Len(sub) + 1) : SubSeq(s, i, i + Len(sub) - 1) = sub

\* the test of withFallback's catch block: isPermissionError ||
\* isResourceExhausted || isServerError || isOverloaded || isLocationError
isRetryable(error) ==
  LET errorMessage == toLowerCase(error.message)
      isPermissionError ==
        \/ error.status = 403
        \/ includes(errorMessage, <<"4", "0", "3">>)
        \/ includes(errorMessage, <<"p", "e", "r", "m", "i", "s", "s", "i", "o", "n">>)
      isResourceExhausted ==
        \/ error.status = 429
        \/ includes(errorMessage, <<"4", "2", "9">>)
      isServerError ==
        \/ error.status = 500
        \/ includes(errorMessage, <<"5", "0", "0">>)
        \/ includes(errorMessage, <<"r", "p", "c">>)
      isOverloaded ==
        \/ error.status = 503
        \/ includes(errorMessage, <<"5", "0", "3">>)
        \/ includes(errorMessage, <<"o", "v", "e", "r", "l", "o", "a", "d", "e", "d">>)
        \/ includes(errorMessage, <<"u", "n", "a", "v", "a", "i", "l", "a", "b", "l", "e">>)
      isLocationError ==
        /\ error.status = 400
        /\ \/ includes(errorMessage, <<"l", "o", "c", "a", "t", "i", "o", "n">>)
           \/ includes(errorMessage, <<"p", "r", "e", "c", "o", "n", "d", "i", "t", "i", "o", "n">>)
           \/ includes(errorMessage, <<"r", "e", "g", "i", "o", "n">>)
  IN  isPermissionError \/ isResourceExhausted \/ isServerError
        \/ isOverloaded \/ isLocationError

\* what one generateContent call does: it rejects with an error, answers
\* without text, answers with text that is not JSON, or answers with JSON
Responses ==
  { [kind |-> "rejects", error |-> e, value |-> EmptyGroups] : e \in Errors }
  \cup { [kind |-> k, error |-> NoError, value |-> EmptyGroups] :
           k \in { "no-text", "not-json" } }
  \cup { [kind |-> "json", error |-> NoError, value |-> v] : v \in JsonValues }

\* a returned value, a thrown error
Returned(v) == [threw |-> FALSE, error |-> NoError, value |-> v]
Thrown(error) == [threw |-> TRUE, error |-> error, value |-> EmptyGroups]

\* execute(model): the empty groups without text, else JSON.parse of the text
execute(response) ==
  CASE response.kind = "rejects" -> Thrown(response.error)
    [] response.kind = "no-text" -> Returned(EmptyGroups)
    [] response.kind = "not-json" -> Thrown(SyntaxError)
    [] OTHER -> Returned(response.value)

\* withFallback running the fallback after any error of the primary
withFallback_AnyError(primary, fallback) ==
  IF ~primary.threw
  THEN [outcome |-> primary, invoked |-> << "primaryFn" >>]
  ELSE [outcome |-> fallback, invoked |-> << "primaryFn", "fallbackFn" >>]

\* withFallback: what it settles with and the functions it invoked, in order.
\* The fallback runs when the primary threw an error the catch block's test
\* accepts; any other error is rethrown.
withFallback(primary, fallback) ==
  IF ~primary.threw
  THEN [outcome |-> primary, invoked |-> << "primaryFn" >>]
  ELSE IF isRetryable(primary.error)
       THEN [outcome |-> fallback, invoked |-> << "primaryFn", "fallbackFn" >>]
       ELSE [outcome |-> primary, invoked |-> << "primaryFn" >>]

\* expandBrainstormNode: the catch block returns the empty groups
expandBrainstormNode(primary, fallback) ==
  LET r == withFallback(execute(primary), execute(fallback)).outcome
  IN  IF r.threw THEN Returned(EmptyGroups) ELSE r

\* result.up || [], and the same for side and down
groupOrEmpty(g) == IF g.is = "array" THEN g.items ELSE << >>

\* What the try block of expandNode makes of the awaited value: reading a
\* member of null throws, a member that is absent counts as an empty array.
resultSeen(r) ==
  IF r.threw \/ r.value.tag = "null"
  THEN [kind |-> "throw", up |-> << >>, side |-> << >>, down |-> << >>]
  ELSE [kind |-> "ok", up |-> groupOrEmpty(r.value.up),
        side |-> groupOrEmpty(r.value.side), down |-> groupOrEmpty(r.value.down)]

\* The provider call of a pending expansion settles: the primary model
\* answers, the fallback model answers if it is asked, and expandNode resumes.
Settle(req, primary, fallback) ==
  LET res == resultSeen(expandBrainstormNode(primary, fallback))
      run == withFallback(execute(primary), execute(fallback))
  IN  /\ Len(nodesRef) + Total(res) <= MaxNodes
      /\ Resume(req, res)
      /\ calls' = [threw |-> execute(primary).threw,
                   error |-> execute(primary).error,
                   invoked |-> run.invoked,
                   rethrown |-> run.outcome = execute(primary)
                                  /\ run.outcome.threw]

(* --------------------------- pointer handlers ------------------------- *)
\* getWorldPos, one coordinate: (raw - t) / k, in world units
getWorldPos(raw, t, k) == Quot(Px(raw - t) * 1000, k)

\* dist <= node.radius: both offsets are within the radius and the squares
\* compare (the squares of larger offsets are not computed)
Hit(h, id, wx, wy) ==
  LET dx == wx - h[id].x
      dy == wy - h[id].y
      r == h[id].radius
  IN  /\ dx <= r /\ -dx <= r
      /\ dy <= r /\ -dy <= r
      /\ (dx * dx) + (dy * dy) <= r * r

\* the hit test iterating forward: the first index that is hit
HitIndex_First(h, store, wx, wy) ==
  LET hits == { i \in DOMAIN store : Hit(h, store[i], wx, wy) }
  IN  IF hits = {} THEN 0 ELSE CHOOSE i \in hits : \A j \in hits : i <= j

\* the hit test of handleMouseDown: the last index that is hit, 0 if none
HitIndex(h, store, wx, wy) ==
  LET hits == { i \in DOMAIN store : Hit(h, store[i], wx, wy) }
  IN  IF hits = {} THEN 0 ELSE CHOOSE i \in hits : \A j \in hits : j <= i

handleMouseDown(p) ==
  LET wx == getWorldPos(p.x, transformRef.x, transformRef.k)
      wy == getWorldPos(p.y, transformRef.y, transformRef.k)
      i == HitIndex(heap, nodesRef, wx, wy)
  IN  /\ lastMousePos' = p
      /\ startDragPos' = p
      /\ isDragging' = TRUE
      /\ IF i # 0
         THEN /\ dragNode' = nodesRef[i]
              /\ heap' = Collect([heap EXCEPT ![nodesRef[i]].isDragging = TRUE],
                                 Roots(nodesRef, nodesRef[i], infoNode, inflight))
              /\ simulationActiveRef' = TRUE
              /\ last' = [op |-> "down-node", node |-> nodesRef[i], pubs |-> 0]
         ELSE /\ dragNode' = NoNode
              /\ heap' = Collect(heap, Roots(nodesRef, NoNode, infoNode, inflight))
              /\ last' = [op |-> "down-canvas", node |-> NoNode, pubs |-> 0]
              /\ UNCHANGED simulationActiveRef
      /\ UNCHANGED << nodesRef, linksRef, transformRef, isInitializing, infoNode,
                      toast, nodes, inflight, rootSeq, moves, ticks, zooms, calls >>

\* a drag that moves the node by the screen delta whatever the scale
dragDelta_Raw(d, k) == Px(d)

\* dx / t.k: a screen delta of d pixels in world units at scale k
dragDelta(d, k) == Quot(Px(d) * 1000, k)

\* Pointer-move: the cursor style alone without a gesture; the drag target
\* moved and stopped during a node drag; the pan offset moved during a pan.

handleMouseMove(p) ==
  /\ IF ~isDragging
     THEN \* hover: only the cursor style changes
          /\ last' = [op |-> "hover", node |-> NoNode, pubs |-> 0]
          /\ UNCHANGED << heap, transformRef, simulationActiveRef, lastMousePos,
                          moves >>
     ELSE LET dx == p.x - lastMousePos.x
              dy == p.y - lastMousePos.y
          IN  /\ moves' = moves + 1
              /\ lastMousePos' = p
              /\ last' = [op |-> "move", node |-> dragNode, pubs |-> 0]
              /\ IF dragNode # NoNode
                 THEN /\ heap' = [heap EXCEPT
                            ![dragNode].x = @ + dragDelta(dx, transformRef.k),
                            ![dragNode].y = @ + dragDelta(dy, transformRef.k),
                            ![dragNode].vx = 0,
                            ![dragNode].vy = 0]
                      /\ simulationActiveRef' = TRUE
                      /\ UNCHANGED transformRef
                 ELSE /\ transformRef' = [transformRef EXCEPT !.x = @ + dx, !.y = @ + dy]
                      /\ UNCHANGED << heap, simulationActiveRef >>
  /\ UNCHANGED << nodesRef, linksRef, isDragging, dragNode, startDragPos,
                  isInitializing, infoNode, toast, nodes, inflight, rootSeq, ticks, zooms, calls >>

\* the click threshold of handleMouseUp, in pixels
ClickDist == 5

\* the click test with an inclusive threshold
IsClick_Inclusive(p, start) ==
  ((p.x - start.x) * (p.x - start.x)) + ((p.y - start.y) * (p.y - start.y))
     <= 25

\* moveDist < 5, squared
IsClick(p, start) ==
  ((p.x - start.x) * (p.x - start.x)) + ((p.y - start.y) * (p.y - start.y))
     < ClickDist * ClickDist

\* the click branches without the shift test
clickBranch_NoShift(node, shiftKey) ==
  IF node.type = "image" THEN "info" ELSE "expand"

\* the click branches with the mark branch taken whatever the shift key
clickBranch_AlwaysMark(node, shiftKey) == "mark"

\* the click branches without the image branch
clickBranch_NoImage(node, shiftKey) == IF shiftKey THEN "mark" ELSE "expand"

\* the branch a click takes
clickBranch(node, shiftKey) ==
  IF shiftKey THEN "mark"
  ELSE IF node.type = "image" THEN "info"
  ELSE "expand"

handleMouseUp(p, shiftKey) ==
  /\ isDragging' = FALSE
  /\ IF dragNode = NoNode
     THEN /\ last' = [op |-> "up-none", node |-> NoNode, pubs |-> 0]
          /\ UNCHANGED << heap, dragNode, nodes, infoNode, simulationActiveRef,
                          inflight >>
     ELSE LET node == dragNode
              heap1 == [heap EXCEPT ![node].isDragging = FALSE]
              branch == IF IsClick(p, startDragPos)
                        THEN clickBranch(heap1[node], shiftKey) ELSE "drag"
              st == IF branch = "expand"
                    THEN expandNodeIssue([ heap |-> heap1,
                                           sim |-> simulationActiveRef,
                                           inflight |-> inflight ],
                                         nodesRef, linksRef, node, FALSE)
                    ELSE [ heap |-> IF branch = "mark"
                                    THEN [heap1 EXCEPT ![node].isMarked = ~@]
                                    ELSE heap1,
                           sim |-> simulationActiveRef, inflight |-> inflight ]
              info == IF branch = "info" THEN node ELSE infoNode
          IN  /\ dragNode' = NoNode
              /\ heap' = Collect(st.heap, Roots(nodesRef, NoNode, info, st.inflight))
              /\ simulationActiveRef' = st.sim
              /\ inflight' = st.inflight
              /\ infoNode' = info
              /\ nodes' = IF branch = "mark" THEN syncNodesToGlobal(nodesRef)
                          ELSE nodes
              /\ last' = [op |-> IF branch = "expand" /\ st.inflight = inflight
                                  THEN "noop" ELSE branch,
                          node |-> node,
                          pubs |-> IF branch = "mark" THEN 1 ELSE 0]
  /\ UNCHANGED << nodesRef, linksRef, transformRef, lastMousePos, startDragPos,
                  isInitializing, toast, rootSeq, moves, ticks, zooms, calls >>

\* a timer callback that leaves the notification in place
ToastTimeout_KeepsToast ==
  /\ toast # NoToast
  /\ toast' = toast
  /\ last' = [op |-> "toast", node |-> NoNode, pubs |-> 0]
  /\ UNCHANGED << heap, nodesRef, linksRef, transformRef, simulationActiveRef,
                  isDragging, dragNode, lastMousePos, startDragPos,
                  isInitializing, infoNode, nodes, inflight, rootSeq, moves,
                  ticks, zooms, calls >>

\* The toast timer effect: every setToast with a notification clears the
\* pending timer and starts a new one, whose callback is setToast(null).
ToastTimeout ==
  /\ toast # NoToast
  /\ toast' = NoToast
  /\ last' = [op |-> "toast", node |-> NoNode, pubs |-> 0]
  /\ UNCHANGED << heap, nodesRef, linksRef, transformRef, simulationActiveRef,
                  isDragging, dragNode, lastMousePos, startDragPos,
                  isInitializing, infoNode, nodes, inflight, rootSeq, moves,
                  ticks, zooms, calls >>

(* ----------------------------- text layout --------------------------- *)
\* text.split(' '): the words between single spaces, empty words included
RECURSIVE SplitFrom(_, _, _)
SplitFrom(text, i, word) ==
  IF i > Len(text) THEN << word >>
  ELSE IF text[i] = " " THEN << word >> \o SplitFrom(text, i + 1, << >>)
  ELSE SplitFrom(text, i + 1, Append(word, text[i]))

Split(text) == SplitFrom(text, 1, << >>)

\* the advance width of a glyph of the bold sans-serif font, in tenths of the
\* font size: a full-width glyph, a space, any other glyph
Advance(c) == IF c = "W" THEN 10 ELSE IF c = " " THEN 3 ELSE 5

RECURSIVE AdvanceSum(_)
AdvanceSum(s) == IF s = << >> THEN 0 ELSE Advance(Head(s)) + AdvanceSum(Tail(s))

\* ctx.measureText(s).width with the font size set, in world units
measureText(fontSize, s) == Quot(fontSize * AdvanceSum(s), 10)

\* fontSize = Math.max(10, Math.min(16, node.radius / 2.5))
fontSizeOf(radius) == Max(Px(10), Min(Px(16), Quot(radius * 10, 25)))

\* maxWidth = node.radius * 1.8
maxWidthOf(radius) == Quot(radius * 18, 10)

\* the character loop starting the next line empty: tempLine = ''
RECURSIVE charWrap_EmptyNext(_, _, _, _, _)
charWrap_EmptyNext(fontSize, text, maxWidth, i, tempLine) ==
  IF i > Len(text) THEN << tempLine >>
  ELSE IF measureText(fontSize, Append(tempLine, text[i])) < maxWidth
       THEN charWrap_EmptyNext(fontSize, text, maxWidth, i + 1, Append(tempLine, text[i]))
       ELSE << tempLine >> \o charWrap_EmptyNext(fontSize, text, maxWidth, i + 1, << >>)

\* the character loop of drawWrappedText: the lines pushed from position i on,
\* tempLine being the line under construction
RECURSIVE charWrap(_, _, _, _, _)
charWrap(fontSize, text, maxWidth, i, tempLine) ==
  IF i > Len(text) THEN << tempLine >>
  ELSE IF measureText(fontSize, Append(tempLine, text[i])) < maxWidth
       THEN charWrap(fontSize, text, maxWidth, i + 1, Append(tempLine, text[i]))
       ELSE << tempLine >> \o charWrap(fontSize, text, maxWidth, i + 1, << text[i] >>)

\* the word loop with a width test on the word alone
RECURSIVE wordWrap_WordOnly(_, _, _, _, _)
wordWrap_WordOnly(fontSize, words, maxWidth, i, currentLine) ==
  IF i > Len(words) THEN << currentLine >>
  ELSE IF measureText(fontSize, words[i]) < maxWidth
       THEN wordWrap_WordOnly(fontSize, words, maxWidth, i + 1,
                              currentLine \o << " " >> \o words[i])
       ELSE << currentLine >>
              \o wordWrap_WordOnly(fontSize, words, maxWidth, i + 1, words[i])

\* the word loop of drawWrappedText: the lines pushed from word i on,
\* currentLine being the line under construction
RECURSIVE wordWrap(_, _, _, _, _)
wordWrap(fontSize, words, maxWidth, i, currentLine) ==
  IF i > Len(words) THEN << currentLine >>
  ELSE IF measureText(fontSize, currentLine \o << " " >> \o words[i]) < maxWidth
       THEN wordWrap(fontSize, words, maxWidth, i + 1,
                     currentLine \o << " " >> \o words[i])
       ELSE << currentLine >> \o wordWrap(fontSize, words, maxWidth, i + 1, words[i])

\* drawWrappedText: the lines it draws, fontSize being the font set on ctx
drawWrappedText(fontSize, text, maxWidth) ==
  LET words == Split(text)
  IN  IF Len(words) = 1 /\ Len(text) > 5
      THEN IF measureText(fontSize, text) > maxWidth
           THEN charWrap(fontSize, text, maxWidth, 1, << >>)
           ELSE << text >>
      ELSE wordWrap(fontSize, words, maxWidth, 2, words[1])

\* the lines the frame draws for a node
labelLines(node) ==
  drawWrappedText(fontSizeOf(node.radius), node.text, maxWidthOf(node.radius))

(* ---------------------------- the viewport --------------------------- *)
\* the bounds of Math.max(0.1, Math.min(5, ...)) in handleWheel, in thousandths
ZoomMin == 100
ZoomMax == 5000

\* a wheel handler that zooms about the world origin's neighbour on the screen:
\* the pan offset is scaled with the zoom
handleWheel_ScalesPan(deltaY) ==
  LET newScale == Max(ZoomMin, Min(ZoomMax, transformRef.k - deltaY))
  IN  /\ transformRef' = [x |-> Quot(transformRef.x * newScale, transformRef.k),
                          y |-> Quot(transformRef.y * newScale, transformRef.k),
                          k |-> newScale]
      /\ last' = [op |-> "wheel", node |-> NoNode, pubs |-> 0]
      /\ UNCHANGED << heap, nodesRef, linksRef, simulationActiveRef, isDragging,
                      dragNode, lastMousePos, startDragPos, isInitializing,
                      infoNode, toast, nodes, inflight, rootSeq, moves, ticks,
                      zooms, calls >>

\* handleWheel without the clamp
handleWheel_Unclamped(deltaY) ==
  /\ transformRef' = [transformRef EXCEPT !.k = transformRef.k - deltaY]
  /\ last' = [op |-> "wheel", node |-> NoNode, pubs |-> 0]
  /\ UNCHANGED << heap, nodesRef, linksRef, simulationActiveRef, isDragging,
                  dragNode, lastMousePos, startDragPos, isInitializing, infoNode,
                  toast, nodes, inflight, rootSeq, moves, ticks, zooms, calls >>

\* handleWheel: delta = -deltaY * zoomSensitivity (0.001), that is -deltaY
\* thousandths; the scale becomes t.k + delta clamped to [0.1, 5]
handleWheel(deltaY) ==
  /\ transformRef' = [transformRef EXCEPT
                        !.k = Max(ZoomMin, Min(ZoomMax, transformRef.k - deltaY))]
  /\ last' = [op |-> "wheel", node |-> NoNode, pubs |-> 0]
  /\ UNCHANGED << heap, nodesRef, linksRef, simulationActiveRef, isDragging,
                  dragNode, lastMousePos, startDragPos, isInitializing, infoNode,
                  toast, nodes, inflight, rootSeq, moves, ticks, zooms, calls >>

\* the zoom-in button: transformRef.current.k *= 1.2
zoomIn ==
  /\ transformRef' = [transformRef EXCEPT !.k = Quot(transformRef.k * 12, 10)]
  /\ zooms' = zooms + 1
  /\ last' = [op |-> "zoom-in", node |-> NoNode, pubs |-> 0]
  /\ UNCHANGED << heap, nodesRef, linksRef, simulationActiveRef, isDragging,
                  dragNode, lastMousePos, startDragPos, isInitializing, infoNode,
                  toast, nodes, inflight, rootSeq, moves, ticks, calls >>

\* the zoom-out button: transformRef.current.k *= 0.8
zoomOut ==
  /\ transformRef' = [transformRef EXCEPT !.k = Quot(transformRef.k * 8, 10)]
  /\ zooms' = zooms + 1
  /\ last' = [op |-> "zoom-out", node |-> NoNode, pubs |-> 0]
  /\ UNCHANGED << heap, nodesRef, linksRef, simulationActiveRef, isDragging,
                  dragNode, lastMousePos, startDragPos, isInitializing, infoNode,
                  toast, nodes, inflight, rootSeq, moves, ticks, calls >>

\* the reset-view button: transformRef.current = {x:0, y:0, k:1}
resetView ==
  /\ transformRef' = [x |-> 0, y |-> 0, k |-> ScaleOne]
  /\ last' = [op |-> "zoom-reset", node |-> NoNode, pubs |-> 0]
  /\ UNCHANGED << heap, nodesRef, linksRef, simulationActiveRef, isDragging,
                  dragNode, lastMousePos, startDragPos, isInitializing, infoNode,
                  toast, nodes, inflight, rootSeq, moves, ticks, zooms, calls >>

(* ------------------------- the animation frame ------------------------ *)
\* PHYSICS.STOP_THRESHOLD (2.0 pixels per frame), in world units
STOP_THRESHOLD == 20
\* the velocity below which a component is set to zero (0.2), in world units
VelocityClamp == 2

Abs(a) == IF a < 0 THEN -a ELSE a

RECURSIVE SumOver(_, _)
\* the sum of f[i] over the indices in S
SumOver(S, f) == IF S = {} THEN 0
                 ELSE LET i == CHOOSE j \in S : TRUE
                      IN  f[i] + SumOver(S \ {i}, f)

\* Repulsion: what the pair (a, b) adds to the velocity of a, one axis
\* force = (REPULSION * 50) / (distSq + 100), fx = (dx / dist) * force
repulsion(a, b, axis) ==
  LET dx == b.x - a.x
      dy == b.y - a.y
      distSq == (dx * dx) + (dy * dy)
      dist == ISqrt(distSq)
      minDist == a.radius + b.radius + Px(30)
      force == 50000000 \div (distSq + 10000)
      d == IF axis = "x" THEN dx ELSE dy
  IN  IF distSq = 0 THEN 0            \* dx = dy = 0: the force has no direction
      \* dist < minDist * 2.5, that is 4 * distSq < 25 * minDist * minDist
      ELSE IF distSq <= ((25 * minDist * minDist) - 1) \div 4
      THEN -Quot(d * force, dist)
      ELSE 0

\* Spring: what a link adds to the velocity of its source, one axis
\* force = (dist - targetDist) * LINK_STRENGTH, fx = (dx / dist) * force
spring(source, target, axis) ==
  LET dx == target.x - source.x
      dy == target.y - source.y
      d0 == ISqrt((dx * dx) + (dy * dy))
      dist == IF d0 = 0 THEN Px(1) ELSE d0
      targetDist == Px(LINK_DISTANCE) + ((source.radius + target.radius) \div 2)
      force == Quot((dist - targetDist) * 8, 1000)
      d == IF axis = "x" THEN dx ELSE dy
  IN  Quot(d * force, dist)

\* a lookup of the link's ends among all node objects instead of the store
linkLive_AnyObject(h, store, l) ==
  l.source \in DOMAIN h /\ l.target \in DOMAIN h

\* if (source && target): both ends of the link are found in the store
linkLive(h, store, l) ==
  InStore(store, l.source) /\ InStore(store, l.target)

\* the velocity of node i of the store after the three forces, friction and
\* the clamp
velocityAfter(h, store, links, i, axis) ==
  LET n == h[store[i]]
      v0 == IF axis = "x" THEN n.vx ELSE n.vy
      pos == IF axis = "x" THEN n.x ELSE n.y
      rep == SumOver(DOMAIN store \ {i},
                     [ j \in DOMAIN store |-> repulsion(n, h[store[j]], axis) ])
      ok(l) == linkLive(h, store, l)
      out == SumOver({ k \in DOMAIN links : ok(links[k]) /\ links[k].source = n.id },
                     [ k \in DOMAIN links |->
                         spring(n, h[links[k].target], axis) ])
      inn == SumOver({ k \in DOMAIN links : ok(links[k]) /\ links[k].target = n.id },
                     [ k \in DOMAIN links |->
                         -spring(h[links[k].source], n, axis) ])
      v1 == v0 + rep + out + inn
      \* CENTER_GRAVITY 0.0001, FRICTION 0.5
      v2 == Quot(v1 + Quot(0 - pos, 10000), 2)
  IN  IF Abs(v2) < VelocityClamp THEN 0 ELSE v2

\* an integration step that moves flagged nodes too
integrate_Dragged(n, vx, vy) ==
  [n EXCEPT !.vx = vx, !.vy = vy, !.x = @ + vx, !.y = @ + vy]

\* the step for one node: a node flagged isDragging takes no force and is not
\* moved; any other node gets its new velocity and moves by it
integrate(n, vx, vy) ==
  IF n.isDragging THEN n
  ELSE [n EXCEPT !.vx = vx, !.vy = vy, !.x = @ + vx, !.y = @ + vy]

\* Sleep check: totalEnergy < STOP_THRESHOLD && !isDragging.current &&
\* !pNodes.some(n => n.isLoading)
sleepCheck(totalEnergy, dragging, loading) ==
  /\ totalEnergy < STOP_THRESHOLD
  /\ ~dragging
  /\ ~loading

\* One animation frame: the physics update when the simulation is awake or a
\* gesture is in progress, then the sleep check (rendering changes no state).

loop ==
  /\ last' = [op |-> "frame", node |-> NoNode, pubs |-> 0]
  /\ IF simulationActiveRef \/ isDragging
     THEN LET moved(i) ==
                LET n == heap[nodesRef[i]]
                    vx == velocityAfter(heap, nodesRef, linksRef, i, "x")
                    vy == velocityAfter(heap, nodesRef, linksRef, i, "y")
                IN  integrate(n, vx, vy)
              heap1 == [ id \in DOMAIN heap |->
                           IF InStore(nodesRef, id)
                           THEN moved(CHOOSE i \in DOMAIN nodesRef : nodesRef[i] = id)
                           ELSE heap[id] ]
              totalEnergy ==
                SumOver({ i \in DOMAIN nodesRef : ~heap[nodesRef[i]].isDragging },
                        [ i \in DOMAIN nodesRef |->
                            Abs(heap1[nodesRef[i]].vx) + Abs(heap1[nodesRef[i]].vy) ])
          IN  /\ ticks' = ticks + 1
              /\ heap' = heap1
              /\ simulationActiveRef' =
                   IF sleepCheck(totalEnergy, isDragging,
                                 \E i \in DOMAIN nodesRef : heap[nodesRef[i]].isLoading)
                   THEN FALSE ELSE simulationActiveRef
     ELSE UNCHANGED << heap, simulationActiveRef, ticks >>
  /\ UNCHANGED << nodesRef, linksRef, transformRef, isDragging, dragNode,
                  lastMousePos, startDragPos, isInitializing, infoNode, toast,
                  nodes, inflight, rootSeq, moves, zooms, calls >>

(* --------------------------- specification ---------------------------- *)
Init ==
  /\ heap = << >>
  /\ nodesRef = << >>
  /\ linksRef = << >>
  /\ transformRef = [x |-> 0, y |-> 0, k |-> ScaleOne]
  /\ simulationActiveRef = TRUE
  /\ isDragging = FALSE
  /\ dragNode = NoNode
  /\ lastMousePos = [x |-> 0, y |-> 0]
  /\ startDragPos = [x |-> 0, y |-> 0]
  /\ isInitializing = FALSE
  /\ infoNode = NoNode
  /\ toast = NoToast
  /\ nodes = << >>
  /\ inflight = EmptyBag
  /\ rootSeq = 0
  /\ last = [op |-> "init", node |-> NoNode, pubs |-> 0]
  /\ moves = 0
  /\ ticks = 0
  /\ zooms = 0
  /\ calls = NoCalls

\* The store and the orchestrator: root submissions, provider completions,
\* pointer-down and pointer-up (clicks and shift-clicks) and the toast timer.
\* Nodes stay where they were spawned.
Next ==
  \/ /\ rootSeq < MaxRoots
     /\ \E text \in RootTexts, via \in Vias : startRoot(text, via)
  \/ \E req \in BagToSet(inflight), res \in Results : Complete(req, res)
  \/ \E p \in Points : handleMouseDown(p)
  \/ \E p \in Points, shiftKey \in BOOLEAN : handleMouseUp(p, shiftKey)
  \/ ToastTimeout

Spec == Init /\ [][Next]_vars

\* One graph with its gestures and frames: the first root submission, provider
\* completions that give the root at most one child, every pointer handler,
\* the animation frame and the toast timer.
NextGesture ==
  \/ /\ rootSeq = 0
     /\ \E text \in RootTexts, via \in Vias : startRoot(text, via)
  \/ \E req \in BagToSet(inflight), res \in Results :
        /\ Len(nodesRef) + Total(res) < MaxNodes
        /\ Complete(req, res)
  \/ \E p \in Points : handleMouseDown(p)
  \/ /\ moves < MaxMoves
     /\ \E p \in Points : handleMouseMove(p)
  \/ \E p \in Points, shiftKey \in BOOLEAN : handleMouseUp(p, shiftKey)
  \/ /\ ticks < MaxTicks
     /\ loop
  \/ ToastTimeout

GestureSpec == Init /\ [][NextGesture]_vars

(* ------------------------------ claims -------------------------------- *)
\* The viewport: one root whose expansion returns nothing or fails, the wheel,
\* the three view buttons, pointer-down and pointer-up.
NextView ==
  \/ /\ rootSeq = 0
     /\ \E text \in RootTexts, via \in Vias : startRoot(text, via)
  \/ \E req \in BagToSet(inflight), res \in Results :
        /\ Total(res) = 0
        /\ Complete(req, res)
  \/ \E deltaY \in WheelDeltas : handleWheel(deltaY)
  \/ /\ zooms < MaxZooms
     /\ (zoomIn \/ zoomOut)
  \/ resetView
  \/ \E p \in Points : handleMouseDown(p)
  \/ \E p \in Points, shiftKey \in BOOLEAN : handleMouseUp(p, shiftKey)
  \/ ToastTimeout

ViewSpec == Init /\ [][NextView]_vars

\* The canvas mounted with a non-empty nodes prop: the restore effect has run.
\* Root ids created afterwards differ from the restored ones (rootSeq = 1).
InitRestore ==
  \E g \in PublishedGraphs :
    \E pos \in [DOMAIN g -> RestorePositions] :
      /\ heap = [ id \in { g[i].id : i \in DOMAIN g } |->
                    LET i == CHOOSE j \in DOMAIN g : g[j].id = id
                    IN  restoreNode(g[i], pos[i]) ]
      /\ nodesRef = [ i \in DOMAIN g |-> g[i].id ]
      /\ linksRef = restoreLinks(g, 1)
      /\ nodes = [ i \in DOMAIN g |-> g[i].id ]
      /\ transformRef = [x |-> 0, y |-> 0, k |-> ScaleOne]
      /\ simulationActiveRef = TRUE
      /\ isDragging = FALSE
      /\ dragNode = NoNode
      /\ lastMousePos = [x |-> 0, y |-> 0]
      /\ startDragPos = [x |-> 0, y |-> 0]
      /\ isInitializing = FALSE
      /\ infoNode = NoNode
      /\ toast = NoToast
      /\ inflight = EmptyBag
      /\ rootSeq = 1
      /\ last = [op |-> "restore", node |-> NoNode, pubs |-> 0]
      /\ moves = 0
      /\ ticks = 0
      /\ zooms = 0
      /\ calls = NoCalls

\* the restored store with root submissions, completions, pointer-down,
\* pointer-up and the toast timer
NextRestore ==
  \/ /\ rootSeq < MaxRoots
     /\ \E text \in RootTexts, via \in Vias : startRoot(text, via)
  \/ \E req \in BagToSet(inflight), res \in Results : Complete(req, res)
  \/ \E p \in Points : handleMouseDown(p)
  \/ \E p \in Points, shiftKey \in BOOLEAN : handleMouseUp(p, shiftKey)
  \/ ToastTimeout

RestoreSpec == InitRestore /\ [][NextRestore]_vars

\* provider results with one string that has spaces, and the failed call
WrapResults == { [kind |-> "ok", up |-> << t >>, side |-> << >>, down |-> << >>] :
                   t \in WrapProviderTexts }
               \cup { [kind |-> "throw", up |-> << >>, side |-> << >>, down |-> << >>] }

\* Labels with spaces on the canvas: one root, completions with one string,
\* pointer-down and pointer-up, the animation frame and the toast timer.
NextWrap ==
  \/ /\ rootSeq = 0
     /\ \E text \in WrapRootTexts, via \in Vias : startRoot(text, via)
  \/ \E req \in BagToSet(inflight), res \in WrapResults : Complete(req, res)
  \/ \E p \in Points : handleMouseDown(p)
  \/ \E p \in Points : handleMouseUp(p, FALSE)
  \/ /\ ticks < MaxTicks
     /\ loop
  \/ ToastTimeout

WrapSpec == Init /\ [][NextWrap]_vars

\* what the fallback model does when it is asked: it rejects, answers without
\* text, or answers with JSON that holds one group
FallbackResponses ==
  { r \in Responses :
      \/ r.kind \in { "rejects", "no-text" }
      \/ r.kind = "json" /\ r.value = JObject(Items(Group(1)), Absent, Absent) }

\* The orchestrator with the provider behind it: root submissions, provider
\* calls settling on every kind of response, clicks and the toast timer.
NextProvider ==
  \/ /\ rootSeq < MaxRoots
     /\ \E text \in RootTexts, via \in Vias : startRoot(text, via)
  \/ \E req \in BagToSet(inflight), primary \in Responses :
       \* what the fallback model would do matters only if it is asked
       \E fallback \in IF Len(withFallback(execute(primary), execute(primary)).invoked) = 2
                       THEN FallbackResponses ELSE { primary } :
          Settle(req, primary, fallback)
  \/ \E p \in Points : handleMouseDown(p)
  \/ \E p \in Points : handleMouseUp(p, FALSE)
  \/ ToastTimeout

ProviderSpec == Init /\ [][NextProvider]_vars

\* The force simulation over several frames: one root, completions that give
\* the root at most one child, node and canvas drags, plain clicks, and frames
\* that run the physics update.
NextPhysics ==
  \/ /\ rootSeq = 0
     /\ \E text \in RootTexts : startRoot(text, "enter")
  \/ \E req \in BagToSet(inflight), res \in Results :
        /\ Len(nodesRef) + Total(res) < MaxNodes
        /\ Complete(req, res)
  \/ \E p \in FramePoints : handleMouseDown(p)
  \/ /\ moves < MaxMoves
     /\ \E p \in FramePoints : handleMouseMove(p)
  \/ \E p \in FramePoints : handleMouseUp(p, FALSE)
  \/ /\ ticks < MaxFrames
     /\ loop
  \/ ToastTimeout

PhysicsSpec == Init /\ [][NextPhysics]_vars

\* Root submissions, completions, clicks and frames interleaved: a new root can
\* be submitted while calls for nodes of the previous graph are pending.
NextWake ==
  \/ /\ rootSeq < MaxRoots
     /\ startRoot(<<"a", "b">>, "enter")
  \/ \E req \in BagToSet(inflight), res \in Results : Complete(req, res)
  \/ \E p \in Points : handleMouseDown(p)
  \/ \E p \in Points : handleMouseUp(p, FALSE)
  \/ /\ ticks < MaxTicks
     /\ loop
  \/ ToastTimeout

WakeSpec == Init /\ [][NextWake]_vars

\* Gestures at several scales: one root with at most one child, the zoom
\* buttons, and every pointer handler.
NextDrag ==
  \/ /\ rootSeq = 0
     /\ startRoot(<<"a", "b">>, "enter")
  \/ \E req \in BagToSet(inflight), res \in Results :
        /\ Len(nodesRef) + Total(res) < MaxNodes
        /\ Complete(req, res)
  \/ /\ zooms < MaxZooms
     /\ (zoomIn \/ zoomOut)
  \/ \E p \in FramePoints : handleMouseDown(p)
  \/ /\ moves < MaxMoves
     /\ \E p \in FramePoints : handleMouseMove(p)
  \/ \E p \in FramePoints : handleMouseUp(p, FALSE)
  \/ ToastTimeout

DragSpec == Init /\ [][NextDrag]_vars

\* The wheel during gestures and frames: one root with at most one child, the
\* wheel turned to either end of the zoom range, every pointer handler and the
\* animation frame.
NextWheel ==
  \/ /\ rootSeq = 0
     /\ startRoot(<<"a", "b">>, "enter")
  \/ \E req \in BagToSet(inflight), res \in Results :
        /\ Len(nodesRef) + Total(res) < MaxNodes
        /\ Complete(req, res)
  \/ \E deltaY \in WheelExtremes : handleWheel(deltaY)
  \/ \E p \in FramePoints : handleMouseDown(p)
  \/ /\ moves < MaxMoves
     /\ \E p \in FramePoints : handleMouseMove(p)
  \/ \E p \in FramePoints : handleMouseUp(p, FALSE)
  \/ /\ ticks < MaxTicks
     /\ loop
  \/ ToastTimeout

WheelSpec == Init /\ [][NextWheel]_vars

\* provider results with one string that has no space, and the failed call
TokenResults == { [kind |-> "ok", up |-> << t >>, side |-> << >>, down |-> << >>] :
                    t \in TokenProviderTexts }
                \cup { [kind |-> "throw", up |-> << >>, side |-> << >>, down |-> << >>] }

\* Labels without spaces on the canvas: one root, completions with one string,
\* pointer-down and pointer-up, the animation frame and the toast timer.
NextToken ==
  \/ /\ rootSeq = 0
     /\ \E text \in TokenRootTexts, via \in Vias : startRoot(text, via)
  \/ \E req \in BagToSet(inflight), res \in TokenResults : Complete(req, res)
  \/ \E p \in Points : handleMouseDown(p)
  \/ \E p \in Points : handleMouseUp(p, FALSE)
  \/ /\ ticks < MaxTicks
     /\ loop
  \/ ToastTimeout

TokenSpec == Init /\ [][NextToken]_vars

\* the provider's answers for labels of either sort: one string
LabelResults == WrapResults \cup TokenResults

\* Labels with and without spaces on one canvas: one root, completions with
\* one string, pointer-down and pointer-up, the animation frame and the toast
\* timer.
NextLabel ==
  \/ /\ rootSeq = 0
     /\ \E text \in LabelRootTexts : startRoot(text, "enter")
  \/ \E req \in BagToSet(inflight), res \in LabelResults : Complete(req, res)
  \/ \E p \in Points : handleMouseDown(p)
  \/ \E p \in Points : handleMouseUp(p, FALSE)
  \/ /\ ticks < MaxTicks
     /\ loop
  \/ ToastTimeout

LabelSpec == Init /\ [][NextLabel]_vars

\* Two expansions at the same time: a root that gets two children, clicks on
\* either child, and completions in any order.
NextPair ==
  \/ /\ rootSeq = 0
     /\ startRoot(<<"a", "b">>, "enter")
  \/ \E req \in BagToSet(inflight), res \in Results :
        /\ req.byRoot => Total(res) = 2
        /\ Len(nodesRef) + Total(res) <= MaxPairNodes
        /\ Resume(req, res)
        /\ UNCHANGED calls
  \/ \E p \in PairPoints : handleMouseDown(p)
  \/ \E p \in PairPoints : handleMouseUp(p, FALSE)
  \/ ToastTimeout

PairSpec == Init /\ [][NextPair]_vars

\* squared screen distance between two pointer positions
ScreenDist2(p, q) == ((p.x - q.x) * (p.x - q.x)) + ((p.y - q.y) * (p.y - q.y))

\* the provider calls pending for the node object id
CallsFor(fl, id) == CopiesIn([node |-> id, byRoot |-> TRUE], fl)
                      + CopiesIn([node |-> id, byRoot |-> FALSE], fl)

\* a plain click (pointer-up within the threshold, no shift) on a text node
PlainClick(p) ==
  /\ handleMouseUp(p, FALSE)
  /\ dragNode # NoNode
  /\ ScreenDist2(p, startDragPos) < 25
  /\ heap[dragNode].type = "text"

\* an idle node of the store: not loading and without outgoing link
Idle(h, store, links, id) ==
  InStore(store, id) /\ ~h[id].isLoading /\ ~hasChildren(links, id)

\* a plain click on an idle node of the store issues one provider call for it
RetriggerIssuesCall ==
  \A p \in Points :
    (PlainClick(p) /\ Idle(heap, nodesRef, linksRef, dragNode))
      => /\ CallsFor(inflight', dragNode) = CallsFor(inflight, dragNode) + 1
         /\ Pending(inflight') = Pending(inflight) + 1
         /\ heap'[dragNode].isLoading

\* C1: every link of the store has its source id and its target id among the
\* ids of the nodes of the store.
C1_LinkEndpointsInStore ==
  \A i \in DOMAIN linksRef :
    InStore(nodesRef, linksRef[i].source) /\ InStore(nodesRef, linksRef[i].target)

\* C2: a completion whose expanded node is no longer in the store adds no
\* node and no link.
C2_StaleResultDropped ==
  [][ \A req \in BagToSet(inflight), res \in Results :
        (Complete(req, res) /\ ~InStore(nodesRef, req.node))
          => (nodesRef' = nodesRef /\ linksRef' = linksRef) ]_vars

RECURSIVE ReachesLevel0(_, _, _, _)
\* following parentId from id reaches a level-0 node of the store in at most
\* fuel steps
ReachesLevel0(h, store, id, fuel) ==
  /\ InStore(store, id)
  /\ \/ h[id].level = 0
     \/ /\ fuel > 0
        /\ h[id].parentId # NoNode
        /\ ReachesLevel0(h, store, h[id].parentId, fuel - 1)

\* C3: a non-empty store has exactly one level-0 node, and every other node
\* has a parentId naming a node of the store and reaches the level-0 node by
\* following parentId.
C3_SingleRootTree ==
  nodesRef # << >> =>
    /\ Cardinality({ i \in DOMAIN nodesRef : heap[nodesRef[i]].level = 0 }) = 1
    /\ \A i \in DOMAIN nodesRef :
         heap[nodesRef[i]].level # 0 =>
           /\ InStore(nodesRef, heap[nodesRef[i]].parentId)
           /\ ReachesLevel0(heap, nodesRef, nodesRef[i], Len(nodesRef))

\* at most one provider call is pending per node
C4_OneCallPerNode ==
  \A r \in BagToSet(inflight) : CallsFor(inflight, r.node) = 1

\* a plain click on a node of the store that is loading or has an outgoing
\* link issues no call and changes no node, link, toast or published list,
\* apart from the drag state every pointer-up clears
C4_NoOpTrigger ==
  \A p \in Points :
    ( /\ PlainClick(p)
      /\ InStore(nodesRef, dragNode)
      /\ (heap[dragNode].isLoading \/ hasChildren(linksRef, dragNode)) )
      => /\ inflight' = inflight
         /\ nodesRef' = nodesRef
         /\ linksRef' = linksRef
         /\ nodes' = nodes
         /\ toast' = toast
         /\ simulationActiveRef' = simulationActiveRef
         /\ \A id \in Range(nodesRef) :
              heap'[id] = [heap[id] EXCEPT
                             !.isDragging = IF id = dragNode THEN FALSE ELSE @]

\* a provider call is issued only for a node without outgoing link
C4_NeverReExpand ==
  \A id \in DOMAIN heap' :
    (CallsFor(inflight', id) > (IF id \in DOMAIN heap THEN CallsFor(inflight, id) ELSE 0))
      => ~hasChildren(linksRef', id)

\* C4: triggering expansion on a node that is loading or has children is a
\* no-op; at most one call is pending per node; a node with children is never
\* expanded again.
C4_ExpansionIdempotent ==
  /\ []C4_OneCallPerNode
  /\ [][C4_NoOpTrigger /\ C4_NeverReExpand]_vars

\* a click on a loading node of the store has just been handled as a no-op
C4_Witness ==
  /\ last.op = "noop"
  /\ InStore(nodesRef, last.node)
  /\ heap[last.node].isLoading

\* the tag of the k-th string of a result
TagOf(res, k) == IF k <= Len(res.up) THEN "up"
                 ELSE IF k <= Len(res.up) + Len(res.side) THEN "side"
                 ELSE "down"

\* C5: a successful completion for a parent p of the store with n strings in
\* all appends exactly n nodes and n links: each new node is a text node at
\* level p.level + 1 with parentId p.id and the tag of its group, the k-th new
\* link runs from p.id to the k-th new node, what was there remains, and p is
\* not loading afterwards.
C5_ExpansionAddsChildren ==
  [][ \A req \in BagToSet(inflight), res \in Results :
        (Complete(req, res) /\ res.kind = "ok" /\ InStore(nodesRef, req.node))
          => LET n == Total(res)
                 pnode == heap[req.node]
                 m == Len(nodesRef)
                 l == Len(linksRef)
             IN  /\ Len(nodesRef') = m + n
                 /\ Len(linksRef') = l + n
                 /\ SubSeq(nodesRef', 1, m) = nodesRef
                 /\ SubSeq(linksRef', 1, l) = linksRef
                 /\ Cardinality(Range(nodesRef')) = Cardinality(Range(nodesRef)) + n
                 /\ \A id \in Range(nodesRef) : id \in DOMAIN heap'
                 /\ \A k \in 1..n :
                      LET c == heap'[nodesRef'[m + k]]
                      IN  /\ c.id = nodesRef'[m + k]
                          /\ c.type = "text"
                          /\ c.level = pnode.level + 1
                          /\ c.parentId = pnode.id
                          /\ c.associationType = TagOf(res, k)
                          /\ linksRef'[l + k].source = pnode.id
                          /\ linksRef'[l + k].target = c.id
                 /\ ~heap'[req.node].isLoading ]_vars

\* an expansion of a node of the store has just added two children
C5_Witness ==
  /\ last.op = "done-ok"
  /\ InStore(nodesRef, last.node)
  /\ Cardinality({ i \in DOMAIN linksRef : linksRef[i].source = last.node }) = 2
  /\ ~heap[last.node].isLoading

\* every id of length 1..n over the digits 1..d
IdsUpTo(n, d) == UNION { [1..k -> 1..d] : k \in 1..n }

\* the largest number of strings in a provider result
MaxKids == CHOOSE n \in { Total(res) : res \in Results } :
             \A res \in Results : Total(res) <= n

\* the ids of the node objects of one tree: the root <<1>> and at most
\* MaxNodes - 1 levels of children below it
AllIds == IdsUpTo(MaxNodes, MaxKids)

\* the node object id is loading
Loading(id) == id \in DOMAIN heap /\ heap[id].isLoading

\* the provider answers the call pending for node id
CompleteNode(id) ==
  \E req \in BagToSet(inflight), res \in Results :
    req.node = id /\ Complete(req, res)

\* one root, and every pointer-up a plain release where the pointer went down
NextLive ==
  \/ /\ rootSeq = 0
     /\ \E text \in RootTexts, via \in Vias : startRoot(text, via)
  \/ \E req \in BagToSet(inflight), res \in Results : Complete(req, res)
  \/ \E p \in Points : handleMouseDown(p)
  \/ handleMouseUp(lastMousePos, FALSE)
  \/ ToastTimeout

\* the provider eventually answers every call
FairSpec ==
  Init /\ [][NextLive]_vars /\ \A id \in AllIds : WF_vars(CompleteNode(id))

\* The timer started by the toast effect fires: while a notification is shown
\* a timer is pending, and a replacement starts a new one.
ToastSpec == Init /\ [][NextLive]_vars /\ WF_vars(ToastTimeout)

\* a node object is loading exactly while a provider call is pending for it
C6_LoadingIffPending ==
  /\ DOMAIN heap \subseteq AllIds
  /\ \A id \in DOMAIN heap : heap[id].isLoading <=> CallsFor(inflight, id) > 0
  /\ \A r \in BagToSet(inflight) : r.node \in DOMAIN heap

\* C6: a node is loading from the moment its provider call is issued until
\* the call completes and not loading once it has completed, whatever the
\* outcome; when the provider answers every call, every loading node
\* eventually is not loading.
C6_LoadingUntilCompletion ==
  /\ []C6_LoadingIffPending
  /\ [][ \A req \in BagToSet(inflight), res \in Results :
           Complete(req, res) =>
             (req.node \in DOMAIN heap' => ~heap'[req.node].isLoading) ]_vars
  /\ \A id \in AllIds : Loading(id) ~> ~Loading(id)

\* a node of the store is loading with its call pending
C6_Witness ==
  \E i \in DOMAIN nodesRef :
    /\ heap[nodesRef[i]].isLoading
    /\ heap[nodesRef[i]].level > 0
    /\ CallsFor(inflight, nodesRef[i]) = 1
    /\ last.op = "expand"

\* C7: a completion by a thrown error leaves the node not loading, the nodes
\* and links of the store as they were, and sets the error toast; the node is
\* idle again, and a plain click on an idle node issues a new provider call.
C7_FailureLeavesGraph ==
  [][ /\ \A req \in BagToSet(inflight), res \in Results :
           (Complete(req, res) /\ res.kind = "throw")
             => /\ nodesRef' = nodesRef
                /\ linksRef' = linksRef
                /\ \A id \in Range(nodesRef) :
                     heap'[id] = [heap[id] EXCEPT
                                    !.isLoading = IF id = req.node THEN FALSE ELSE @]
                /\ toast' = "error"
                /\ InStore(nodesRef, req.node)
                     => Idle(heap', nodesRef', linksRef', req.node)
      /\ RetriggerIssuesCall ]_vars

\* an expansion of a node of the store has just failed
C7_Witness ==
  /\ last.op = "done-throw"
  /\ toast = "error"
  /\ Idle(heap, nodesRef, linksRef, last.node)
  /\ heap[last.node].level > 0

\* C8: a completion with zero strings sets the warning toast, adds no node
\* and no link, and leaves the node not loading and without children; a plain
\* click on such a node issues a new provider call.
C8_EmptyResultWarns ==
  [][ /\ \A req \in BagToSet(inflight), res \in Results :
           (Complete(req, res) /\ res.kind = "ok" /\ Total(res) = 0)
             => /\ toast' = "warning"
                /\ nodesRef' = nodesRef
                /\ linksRef' = linksRef
                /\ req.node \in DOMAIN heap' => ~heap'[req.node].isLoading
                /\ ~hasChildren(linksRef', req.node)
      /\ \A p \in Points :
           (PlainClick(p) /\ Idle(heap, nodesRef, linksRef, dragNode))
             => BagIn([node |-> dragNode, byRoot |-> FALSE], inflight') ]_vars

\* an expansion of a node of the store has just returned nothing
C8_Witness ==
  /\ last.op = "done-empty"
  /\ toast = "warning"
  /\ Idle(heap, nodesRef, linksRef, last.node)

\* the isMarked flags of the node objects that survive the step are unchanged
MarksUnchanged ==
  \A id \in DOMAIN heap \cap DOMAIN heap' : heap'[id].isMarked = heap[id].isMarked

\* C9: a pointer-up on a pressed node is a click exactly when it is less than
\* 5 px away from the pointer-down, whatever moves and frames came between;
\* at 5 px or more it is a drag: no mark toggles, no detail view opens, no
\* provider call is issued.
C9_ClickThreshold ==
  [][ /\ \A p \in Points, shiftKey \in BOOLEAN :
           (handleMouseUp(p, shiftKey) /\ dragNode # NoNode)
             => IF ScreenDist2(p, startDragPos) >= 25
                THEN /\ MarksUnchanged
                     /\ infoNode' = infoNode
                     /\ inflight' = inflight
                     /\ nodes' = nodes
                     /\ last'.op = "drag"
                ELSE /\ last'.op \in {"mark", "info", "expand", "noop"}
                     /\ shiftKey => ~MarksUnchanged
                     /\ (~shiftKey /\ heap[dragNode].type = "text"
                           /\ Idle(heap, nodesRef, linksRef, dragNode))
                          => CallsFor(inflight', dragNode) = 1
      /\ ((\E p \in Points : handleMouseMove(p)) \/ loop)
           => (startDragPos' = startDragPos /\ dragNode' = dragNode) ]_vars

\* a node was pressed, moved by a pointer move, and released where it was
\* pressed: the release was a click
C9_Witness ==
  /\ last.op = "mark"
  /\ lastMousePos # startDragPos
  /\ moves > 0
  /\ ticks > 0

\* a shift-click: a pointer-up with shift within the threshold on a pressed node
ShiftClick(p) ==
  /\ handleMouseUp(p, TRUE)
  /\ dragNode # NoNode
  /\ ScreenDist2(p, startDragPos) < 25

\* C10: a shift-click flips isMarked of the clicked node, publishes the node
\* list exactly once and issues no provider call; no other step changes a
\* mark, so a second shift-click restores the value with a second publish.
C10_ShiftClickToggles ==
  [][ /\ \A p \in Points :
           ShiftClick(p)
             => /\ InStore(nodesRef, dragNode) => dragNode \in DOMAIN heap'
                /\ dragNode \in DOMAIN heap'
                     => heap'[dragNode].isMarked = ~heap[dragNode].isMarked
                /\ \A id \in (DOMAIN heap \cap DOMAIN heap') \ {dragNode} :
                     heap'[id].isMarked = heap[id].isMarked
                /\ last'.pubs = 1
                /\ nodes' = nodesRef
                /\ inflight' = inflight
      /\ ~MarksUnchanged => \E p \in Points : ShiftClick(p) ]_vars

\* a second shift-click has just cleared the mark the first one set
C10_Witness ==
  /\ last.op = "mark"
  /\ last.pubs = 1
  /\ last.node \in DOMAIN heap
  /\ ~heap[last.node].isMarked

\* the pointer-up is a shift-click on a pressed node
IsShiftClick(p, shiftKey) ==
  shiftKey /\ dragNode # NoNode /\ ScreenDist2(p, startDragPos) < 25

C12_PublishedTracksStore == nodes = nodesRef

\* C13: every wheel event sets the scale to the previous scale plus the step
\* (-deltaY / 1000), clamped to [0.1, 5]: the scale after a wheel event is in
\* that range, and a step that would pass 5 (or 0.1) yields exactly 5 (0.1).
C13_WheelScaleClamped ==
  [][ \A deltaY \in WheelDeltas :
        handleWheel(deltaY)
          => LET sum == transformRef.k - deltaY
             IN  /\ transformRef'.k >= 100
                 /\ transformRef'.k <= 5000
                 /\ sum >= 5000 => transformRef'.k = 5000
                 /\ sum <= 100 => transformRef'.k = 100
                 /\ (sum > 100 /\ sum < 5000) => transformRef'.k = sum
                 /\ transformRef'.x = transformRef.x
                 /\ transformRef'.y = transformRef.y ]_vars

\* a wheel event has just brought the scale to exactly 5 after a zoom button
\* had been pressed
C13_Witness ==
  /\ last.op = "wheel"
  /\ transformRef.k = 5000
  /\ zooms > 0

\* the world position (wx, wy) is inside the node at index i of the store:
\* its distance to the centre is at most the radius
Inside(i, wx, wy) ==
  LET n == heap[nodesRef[i]]
  IN  ((wx - n.x) * (wx - n.x)) + ((wy - n.y) * (wy - n.y)) <= n.radius * n.radius

\* C14: a pointer-down selects as target the node of highest index among the
\* nodes its world position is inside, and no node when it is inside none.
C14_HitTestTopmost ==
  [][ \A p \in Points :
        handleMouseDown(p)
          => LET wx == getWorldPos(p.x, transformRef.x, transformRef.k)
                 wy == getWorldPos(p.y, transformRef.y, transformRef.k)
                 hits == { i \in DOMAIN nodesRef : Inside(i, wx, wy) }
             IN  IF hits = {}
                 THEN dragNode' = NoNode
                 ELSE \E i \in hits : /\ dragNode' = nodesRef[i]
                                      /\ \A j \in hits : j <= i ]_vars

\* a pointer-down inside two overlapping nodes has just selected the later one
C14_Witness ==
  /\ last.op = "down-node"
  /\ lastMousePos = startDragPos
  /\ \E i, j \in DOMAIN nodesRef :
       LET wx == getWorldPos(lastMousePos.x, transformRef.x, transformRef.k)
           wy == getWorldPos(lastMousePos.y, transformRef.y, transformRef.k)
       IN  /\ i < j
           /\ Inside(i, wx, wy)
           /\ Inside(j, wx, wy)
           /\ dragNode = nodesRef[j]

\* C15: a node of the store is flagged isDragging only while a pointer gesture
\* is in progress with that node as its drag target.
C15_DraggingOnlyTarget ==
  \A i \in DOMAIN nodesRef :
    heap[nodesRef[i]].isDragging => (isDragging /\ dragNode = nodesRef[i])

\* C16: a plain click on an image node opens the detail view (infoNode is the
\* node) and issues no provider call, sets no loading flag and adds no node
\* and no link.
C16_ImageClickOpensDetail ==
  [][ \A p \in Points :
        ( /\ handleMouseUp(p, FALSE)
          /\ dragNode # NoNode
          /\ ScreenDist2(p, startDragPos) < 25
          /\ heap[dragNode].type = "image" )
          => /\ infoNode' = dragNode
             /\ inflight' = inflight
             /\ nodesRef' = nodesRef
             /\ linksRef' = linksRef
             /\ \A id \in DOMAIN heap \cap DOMAIN heap' :
                  heap'[id].isLoading = heap[id].isLoading ]_vars

\* the detail view has just been opened by a click on an image node of the store
C16_Witness ==
  /\ last.op = "info"
  /\ infoNode = last.node
  /\ InStore(nodesRef, infoNode)
  /\ heap[infoNode].type = "image"
  /\ ~heap[infoNode].isLoading

\* a is an initial segment of b
Prefix(a, b) == Len(a) <= Len(b) /\ SubSeq(b, 1, Len(a)) = a

\* C17: a step that is not a root submission with non-blank text removes no
\* node and no link (the store before it is an initial segment of the store
\* after it); right after a root submission with non-blank text the store
\* holds one node, the new level-0 root, and no link.
C17_StoreGrowsUntilReset ==
  [][ IF rootSeq' # rootSeq
      THEN /\ Len(nodesRef') = 1
           /\ nodesRef'[1] \notin DOMAIN heap
           /\ heap'[nodesRef'[1]].level = 0
           /\ heap'[nodesRef'[1]].parentId = NoNode
           /\ linksRef' = << >>
      ELSE /\ Prefix(nodesRef, nodesRef')
           /\ Prefix(linksRef, linksRef') ]_vars

\* a second root has just replaced a store of several nodes
C17_Witness ==
  /\ last.op = "root"
  /\ rootSeq = 2
  /\ Len(nodes) > 1
  /\ Len(nodesRef) = 1
  /\ linksRef = << >>

\* C18: a completion changes none of isMarked, text, type, level and parentId
\* of a node object that existed before it.
C18_CompletionKeepsFields ==
  [][ \A req \in BagToSet(inflight), res \in Results :
        Complete(req, res)
          => \A id \in DOMAIN heap \cap DOMAIN heap' :
               /\ heap'[id].isMarked = heap[id].isMarked
               /\ heap'[id].text = heap[id].text
               /\ heap'[id].type = heap[id].type
               /\ heap'[id].level = heap[id].level
               /\ heap'[id].parentId = heap[id].parentId ]_vars

\* the expansion of a marked node of the store has just given it children,
\* and the node is still marked
C18_Witness ==
  /\ last.op = "done-ok"
  /\ InStore(nodesRef, last.node)
  /\ hasChildren(linksRef, last.node)
  /\ heap[last.node].isMarked

\* the minimum radius for a kind and a level, from the BASE_RADIUS table
minimumRadius(type, level) ==
  IF level = 0 THEN BASE_RADIUS.root
  ELSE IF type = "image" THEN BASE_RADIUS.image
  ELSE IF level = 1 THEN BASE_RADIUS.level1
  ELSE BASE_RADIUS.normal

\* C19: every node of the store has a radius of at least the minimum radius
\* the BASE_RADIUS table gives for its kind and level.
C19_RadiusAtLeastMinimum ==
  \A i \in DOMAIN nodesRef :
    LET n == heap[nodesRef[i]]
    IN  n.radius >= Px(minimumRadius(n.type, n.level))

\* the text has a space
HasSpace(s) == \E i \in DOMAIN s : s[i] = " "

\* C20: for a label with spaces, every line drawn is at most maxWidth wide,
\* except a line that is a single word (no space) wider than maxWidth by
\* itself.
C20_WrappedLinesFit ==
  \A i \in DOMAIN nodesRef :
    LET n == heap[nodesRef[i]]
        fontSize == fontSizeOf(n.radius)
        maxWidth == maxWidthOf(n.radius)
        lines == labelLines(n)
    IN  HasSpace(n.text)
          => \A k \in DOMAIN lines :
               \/ measureText(fontSize, lines[k]) <= maxWidth
               \/ ~HasSpace(lines[k])

\* the store holds a label drawn as a two-word line that fits, a label that
\* was wrapped, and a label with a line of one word wider than maxWidth
C20_Witness ==
  /\ ticks > 0
  /\ \E i \in DOMAIN nodesRef :
       LET lines == labelLines(heap[nodesRef[i]])
       IN  Len(lines) > 1 /\ \E k \in DOMAIN lines : HasSpace(lines[k])
  /\ \E i \in DOMAIN nodesRef :
       LET n == heap[nodesRef[i]]
           lines == labelLines(n)
       IN  /\ HasSpace(n.text)
           /\ \E k \in DOMAIN lines :
                measureText(fontSizeOf(n.radius), lines[k]) > maxWidthOf(n.radius)

\* the provider call fails: the primary model rejects and the fallback is not
\* asked or rejects too
ProviderFails(primary, fallback) ==
  \/ primary.kind = "rejects" /\ ~isRetryable(primary.error)
  \/ /\ primary.kind = "rejects" /\ isRetryable(primary.error)
     /\ fallback.kind = "rejects"

\* the provider succeeds with no item in any group
ProviderEmpty(primary, fallback) ==
  LET answer == IF primary.kind = "rejects" /\ isRetryable(primary.error)
                  THEN fallback ELSE primary
  IN  \/ answer.kind = "no-text"
      \/ answer.kind = "json" /\ answer.value = EmptyGroups

\* C21: a provider failure reaches expandNode as an error, not as an empty
\* result: the step that settles a failed call sets the failure notification,
\* which differs from the one an empty result sets, and clears the loading
\* flag.
C21_FailureSurfacesAsError ==
  [][ \A req \in BagToSet(inflight), primary \in Responses, fallback \in Responses :
        (ProviderFails(primary, fallback) /\ Settle(req, primary, fallback))
          => /\ toast' = "error"
             /\ req.node \in DOMAIN heap' => ~heap'[req.node].isLoading
             /\ \A p2 \in Responses, f2 \in Responses :
                  ProviderEmpty(p2, f2)
                    => resultSeen(expandBrainstormNode(p2, f2))
                         # resultSeen(expandBrainstormNode(primary, fallback)) ]_vars

\* the response the provider call ends with cannot be parsed into the three
\* groups: text that is not JSON, a value that is no object, a missing group
Malformed(primary, fallback) ==
  LET answer == IF primary.kind = "rejects" /\ isRetryable(primary.error)
                  THEN fallback ELSE primary
  IN  \/ answer.kind = "not-json"
      \/ /\ answer.kind = "json"
         /\ \/ answer.value.tag # "object"
            \/ Absent \in { answer.value.up, answer.value.side, answer.value.down }

\* C22: a response that cannot be parsed into the three groups is treated as
\* an empty result: the step that settles the call adds no node and no link,
\* clears the loading flag and sets the notification of an empty result.
C22_MalformedIsEmpty ==
  [][ \A req \in BagToSet(inflight), primary \in Responses, fallback \in Responses :
        (Malformed(primary, fallback) /\ Settle(req, primary, fallback))
          => /\ nodesRef' = nodesRef
             /\ linksRef' = linksRef
             /\ req.node \in DOMAIN heap' => ~heap'[req.node].isLoading
             /\ toast' = "warning" ]_vars

\* C23: every notification shown is eventually dismissed by its timer, with no
\* user action: no notification stays displayed forever.
C23_ToastEventuallyDismissed == (toast # NoToast) ~> (toast = NoToast)

\* a notification was shown and its timer has dismissed it
C23_Witness == last.op = "toast" /\ toast = NoToast

\* the distance between the ends of a link and the distance its spring aims at
linkDistance(l) ==
  LET dx == heap[l.target].x - heap[l.source].x
      dy == heap[l.target].y - heap[l.source].y
  IN  ISqrt((dx * dx) + (dy * dy))

targetDistance(l) ==
  Px(LINK_DISTANCE) + ((heap[l.source].radius + heap[l.target].radius) \div 2)

\* the tolerance: a tenth of the base link distance
LinkTolerance == Px(LINK_DISTANCE) \div 10

\* C24: when a frame leaves the simulation asleep, every link of the store is
\* within the tolerance of its target distance.
C24_AsleepLinksAtRest ==
  (last.op = "frame" /\ ~simulationActiveRef)
    => \A k \in DOMAIN linksRef :
         LET l == linksRef[k]
         IN  (InStore(nodesRef, l.source) /\ InStore(nodesRef, l.target))
               => Abs(linkDistance(l) - targetDistance(l)) < LinkTolerance

\* the summed absolute velocity of the nodes of the store
summedVelocity(h, store) ==
  SumOver(DOMAIN store,
          [ i \in DOMAIN store |-> Abs(h[store[i]].vx) + Abs(h[store[i]].vy) ])

\* C25: a frame puts the simulation to sleep only when no node of the store is
\* loading, no node is being dragged, and the summed absolute velocity of the
\* nodes after the frame is below the energy threshold.
C25_SleepOnlyAtRest ==
  [][ (loop /\ simulationActiveRef /\ ~simulationActiveRef')
        => /\ ~\E i \in DOMAIN nodesRef : heap[nodesRef[i]].isLoading
           /\ ~(isDragging /\ dragNode # NoNode)
           /\ summedVelocity(heap', nodesRef) < STOP_THRESHOLD ]_vars

\* position and velocity of every node object are what they were
NodesAtRest ==
  \A id \in DOMAIN heap \cap DOMAIN heap' :
    /\ heap'[id].x = heap[id].x /\ heap'[id].y = heap[id].y
    /\ heap'[id].vx = heap[id].vx /\ heap'[id].vy = heap[id].vy

\* C26: while the simulation is asleep a frame leaves the position and the
\* velocity of every node unchanged, and so do a pointer-down on the
\* background, a pointer-move of a canvas pan or without a gesture, and a
\* pointer-up.
C26_AsleepNodesFrozen ==
  [][ /\ (loop /\ ~simulationActiveRef) => NodesAtRest
      /\ \/ last'.op \in { "down-canvas", "hover", "up-none", "mark" }
         \/ last'.op = "move" /\ last'.node = NoNode
         => NodesAtRest ]_vars

\* a node object turns loading, or is created loading
LoadingTurnsOn ==
  \E id \in DOMAIN heap' :
    /\ heap'[id].isLoading
    /\ id \in DOMAIN heap => ~heap[id].isLoading

\* C27: right after a pointer-down that hits a node, after a node's isLoading
\* turns true, and after a completion that adds nodes or links to the store,
\* the simulation is awake.
C27_AwakeAfterTrigger ==
  [][ /\ last'.op = "down-node" => simulationActiveRef'
      /\ LoadingTurnsOn => simulationActiveRef'
      /\ (last'.op = "done-ok" /\ (nodesRef' # nodesRef \/ linksRef' # linksRef))
           => simulationActiveRef' ]_vars

\* position and velocity of node object id are what they were
Unmoved(id) ==
  /\ heap'[id].x = heap[id].x /\ heap'[id].y = heap[id].y
  /\ heap'[id].vx = heap[id].vx /\ heap'[id].vy = heap[id].vy

\* C28: a frame leaves the position and the velocity of every node flagged
\* isDragging unchanged, and while a node is the drag target of a gesture its
\* position changes only in pointer-move steps.
C28_DraggedNodeIgnoresForces ==
  [][ /\ loop => \A i \in DOMAIN nodesRef :
                   heap[nodesRef[i]].isDragging => Unmoved(nodesRef[i])
      /\ (isDragging /\ dragNode \in DOMAIN heap /\ dragNode \in DOMAIN heap'
            /\ (heap'[dragNode].x # heap[dragNode].x \/ heap'[dragNode].y # heap[dragNode].y))
           => last'.op = "move" ]_vars

\* a frame has run the physics update during a node drag: the other node of
\* the link moved, the dragged node is held
C28_Witness ==
  /\ last.op = "frame"
  /\ isDragging
  /\ dragNode \in DOMAIN heap
  /\ heap[dragNode].isDragging
  /\ InStore(nodesRef, dragNode)
  /\ \E i \in DOMAIN nodesRef :
       /\ ~heap[nodesRef[i]].isDragging
       /\ heap[nodesRef[i]].vx # 0
       /\ \E k \in DOMAIN linksRef :
            {linksRef[k].source, linksRef[k].target} = {dragNode, nodesRef[i]}

\* every node object other than id is what it was
OthersUnchanged(id) ==
  /\ DOMAIN heap' = DOMAIN heap
  /\ \A j \in DOMAIN heap \ {id} : heap'[j] = heap[j]

\* the node moved by d pixels on the screen along one axis: its world shift
\* times the scale is the delta, up to the rounding of one world unit
ScreenShift(before, after, d) ==
  LET k == transformRef.k
  IN  /\ k * (after - before) > (1000 * Px(d)) - k
      /\ k * (after - before) < (1000 * Px(d)) + k

\* C29: a pointer-move during a node drag moves the drag target by the screen
\* delta divided by the scale, stops it, and changes no other node, not the
\* pan offset and not the scale; during a canvas pan it adds the screen delta
\* to the pan offset and changes no node and not the scale; without a gesture
\* it changes no node, no link, no viewport value and no gesture state.
C29_PointerMoveEffect ==
  [][ \A p \in FramePoints :
        handleMouseMove(p) =>
          LET dx == p.x - lastMousePos.x
              dy == p.y - lastMousePos.y
          IN  /\ (isDragging /\ dragNode # NoNode) =>
                   /\ ScreenShift(heap[dragNode].x, heap'[dragNode].x, dx)
                   /\ ScreenShift(heap[dragNode].y, heap'[dragNode].y, dy)
                   /\ heap'[dragNode].vx = 0 /\ heap'[dragNode].vy = 0
                   /\ OthersUnchanged(dragNode)
                   /\ transformRef' = transformRef
              /\ (isDragging /\ dragNode = NoNode) =>
                   /\ transformRef'.x = transformRef.x + dx
                   /\ transformRef'.y = transformRef.y + dy
                   /\ transformRef'.k = transformRef.k
                   /\ heap' = heap
              /\ ~isDragging =>
                   UNCHANGED << heap, nodesRef, linksRef, transformRef,
                                simulationActiveRef, isDragging, dragNode >>
              /\ UNCHANGED << nodesRef, linksRef >> ]_vars

\* a pointer-move has dragged the root of a two-node graph at a scale other
\* than one
C29_Witness ==
  /\ last.op = "move"
  /\ last.node = dragNode
  /\ dragNode \in DOMAIN heap
  /\ heap[dragNode].level = 0
  /\ heap[dragNode].x # 0
  /\ transformRef.k # ScaleOne
  /\ Len(nodesRef) > 1

\* C30: a wheel event changes the scale and nothing else: not the pan offset,
\* no node, no link, not the gesture state and not the awake or asleep state.
C30_WheelChangesScaleOnly ==
  [][ \A deltaY \in WheelExtremes :
        handleWheel(deltaY)
          => /\ transformRef'.x = transformRef.x
             /\ transformRef'.y = transformRef.y
             /\ UNCHANGED << heap, nodesRef, linksRef, isDragging, dragNode,
                             lastMousePos, startDragPos, simulationActiveRef >> ]_vars

\* the wheel has changed the scale during a canvas pan that had moved the pan
\* offset, with two nodes in the store and the simulation asleep
C30_Witness ==
  /\ last.op = "wheel"
  /\ transformRef.k # ScaleOne
  /\ transformRef.x # 0
  /\ isDragging
  /\ dragNode = NoNode
  /\ ~simulationActiveRef
  /\ Len(nodesRef) > 1

\* C31: the radius of every node of the store is the radius createPhysicsNode
\* computes for its kind, level and label, whether the node was created by a
\* root submission or an expansion or restored from the published list.
C31_RadiusOneFunction ==
  \A i \in DOMAIN nodesRef :
    LET n == heap[nodesRef[i]]
    IN  n.radius = createPhysicsNode(n, n.x, n.y).radius

\* C32: a label without spaces that is wider than maxWidth is drawn in lines
\* that are each at most maxWidth wide, whatever the number of its characters.
C32_TokenLinesFit ==
  \A i \in DOMAIN nodesRef :
    LET n == heap[nodesRef[i]]
        fontSize == fontSizeOf(n.radius)
        maxWidth == maxWidthOf(n.radius)
        lines == labelLines(n)
    IN  (~HasSpace(n.text) /\ measureText(fontSize, n.text) > maxWidth)
          => \A k \in DOMAIN lines : measureText(fontSize, lines[k]) <= maxWidth

\* the links of the store with both ends in the store
LiveLinks ==
  SelectSeq(linksRef, LAMBDA l : InStore(nodesRef, l.source) /\ InStore(nodesRef, l.target))

\* a link of the store has an end that is no node of the store
DanglingLink ==
  \E k \in DOMAIN linksRef :
    ~(InStore(nodesRef, linksRef[k].source) /\ InStore(nodesRef, linksRef[k].target))

\* C33: a frame skips every link with an end that is no node of the store:
\* each node gets the velocity and the position the frame would give it with
\* those links removed.
C33_DanglingLinksSkipped ==
  [][ loop =>
           \A i \in DOMAIN nodesRef :
             LET id == nodesRef[i]
             IN  IF (simulationActiveRef \/ isDragging) /\ ~heap[id].isDragging
                 THEN /\ heap'[id].vx = velocityAfter(heap, nodesRef, LiveLinks, i, "x")
                      /\ heap'[id].vy = velocityAfter(heap, nodesRef, LiveLinks, i, "y")
                      /\ heap'[id].x = heap[id].x + heap'[id].vx
                      /\ heap'[id].y = heap[id].y + heap'[id].vy
                 ELSE Unmoved(id) ]_vars

\* a frame has run the physics update on a store with a link whose source is
\* a node object outside the store
C33_Witness ==
  /\ last.op = "frame"
  /\ ticks > 0
  /\ \E k \in DOMAIN linksRef :
       /\ ~InStore(nodesRef, linksRef[k].source)
       /\ linksRef[k].source \in DOMAIN heap
       /\ InStore(nodesRef, linksRef[k].target)

\* the link from a node to one of its children is in the link list
Linked(links, id, child) ==
  \E k \in DOMAIN links : links[k].source = id /\ links[k].target = child

\* the requests in flight for nodes of the store other than the node id
OtherRequests(id) ==
  { req \in BagToSet(inflight) : req.node # id /\ InStore(nodesRef, req.node) }

\* C34: when the expansions of two distinct nodes of one store are in flight
\* together, each completion appends to what the store holds at that moment:
\* the nodes and links already there stay, in order, and after every step the
\* children of every store node are in the store, each with its link from the
\* parent, whichever of the two requests completed first.
C34_ConcurrentExpansionsMerge ==
  [][ /\ \A req \in BagToSet(inflight) :
           (OtherRequests(req.node) # {} /\ InStore(nodesRef, req.node)
              /\ inflight' = inflight (-) SetToBag({req}))
             => /\ Prefix(nodesRef, nodesRef')
                /\ Prefix(linksRef, linksRef')
      /\ \A i \in DOMAIN nodesRef' :
           LET n == heap'[nodesRef'[i]]
           IN  \A c \in DOMAIN n.children :
                 /\ InStore(nodesRef', n.children[c])
                 /\ Linked(linksRef', n.id, n.children[c]) ]_vars

\* one of two expansions in flight together has completed with children while
\* the other, for a different node of the same store, is still in flight
C34_Witness ==
  /\ last.op = "done-ok"
  /\ InStore(nodesRef, last.node)
  /\ heap[last.node].children # << >>
  /\ OtherRequests(last.node) # {}

\* C35: the viewport scale lies in [0.1, 5] in every reachable state, whatever
\* the sequence of wheel events, zoom button presses, view resets and root
\* submissions.
C35_ScaleInRange ==
  /\ transformRef.k >= ZoomMin
  /\ transformRef.k <= ZoomMax

\* C36: whenever no expansion request is in flight, the published list of
\* node ids is the store's list of node ids, in the same order.
C36_PublishedMatchesStore ==
  (inflight = EmptyBag) => (nodes = nodesRef)

\* an expansion has added nodes to the store and nothing is in flight
C36_Witness ==
  /\ inflight = EmptyBag
  /\ last.op = "done-ok"
  /\ Len(nodesRef) >= 2

\* the number of startRoot calls awaiting their root's expansion
RootsInFlight ==
  LET rs == { req \in BagToSet(inflight) : req.byRoot }
  IN  SumOver(rs, [ req \in rs |-> CopiesIn(req, inflight) ])

\* C37: isInitializing is true exactly while a startRoot is in flight, and at
\* most one startRoot is in flight at any time, whether the root came from the
\* start button, the Enter key or an image upload.
C37_OneInitialization ==
  /\ isInitializing <=> (RootsInFlight > 0)
  /\ RootsInFlight <= 1

\* the lines one after the other, and the lines with one space between them
RECURSIVE Concat(_)
Concat(lines) == IF lines = << >> THEN << >> ELSE Head(lines) \o Concat(Tail(lines))

RECURSIVE Join(_)
Join(lines) == IF Len(lines) <= 1 THEN Concat(lines)
               ELSE Head(lines) \o << " " >> \o Join(Tail(lines))

\* C38: the lines drawn for a label hold its text, whole and in order: for a
\* label without spaces the lines one after the other are the label, for a
\* label with spaces the lines joined by single spaces are the label.
C38_WrapKeepsText ==
  \A i \in DOMAIN nodesRef :
    LET n == heap[nodesRef[i]]
        lines == labelLines(n)
    IN  IF HasSpace(n.text) THEN Join(lines) = n.text
        ELSE Concat(lines) = n.text

\* a frame has drawn a label with spaces on several lines and a label without
\* spaces on several lines
C38_Witness ==
  /\ ticks > 0
  /\ last.op = "frame"
  /\ \E i, j \in DOMAIN nodesRef :
       /\ HasSpace(heap[nodesRef[i]].text)
       /\ Len(labelLines(heap[nodesRef[i]])) >= 2
       /\ ~HasSpace(heap[nodesRef[j]].text)
       /\ Len(labelLines(heap[nodesRef[j]])) >= 2

\* the number of times the fallback function was invoked in the last run
FallbackCount ==
  Cardinality({ i \in DOMAIN calls.invoked : calls.invoked[i] = "fallbackFn" })

\* C39: in every run of withFallback the fallback is invoked at most once, and
\* only after the primary threw an error of one of the classes the catch block
\* accepts; when the primary succeeds the fallback is not invoked, and when the
\* primary throws any other error that error is rethrown and the fallback is
\* not invoked.
C39_FallbackOnlyAfterQualifyingError ==
  /\ FallbackCount <= 1
  /\ FallbackCount = 1
       => /\ calls.threw
          /\ isRetryable(calls.error)
          /\ calls.invoked = << "primaryFn", "fallbackFn" >>
  /\ (calls.invoked # << >> /\ ~calls.threw) => FallbackCount = 0
  /\ (calls.threw /\ ~isRetryable(calls.error))
       => FallbackCount = 0 /\ calls.rethrown

\* a run where the fallback was invoked after a qualifying error
C39_Witness ==
  /\ calls.threw
  /\ FallbackCount = 1
  /\ last.op \in { "done-ok", "done-empty", "done-throw" }

====
